---------------------------- MODULE Spec2Model ----------------------------
(***************************************************************************)
(* Model of the scoring-and-refinement core of openBlogRewriter:           *)
(*   main.py                         the optimization session (step2)      *)
(*   src/utils/content_evaluator.py  the quality scorer                    *)
(*   src/utils/seo_analyzer.py       the SEO analyzer                      *)
(*   src/utils/image_processor.py    marker redistribution and embedding   *)
(*                                                                         *)
(* Texts.  A text is a sequence of blocks joined by a blank line.  Every   *)
(* block is one of a few sample strings, named by its kind:                *)
(*   heading   "## Section title here"                                     *)
(*   para      "This paragraph is plainly long enough."                    *)
(*   easy      "a b c d e f g h i j k l."                                  *)
(*   copied    "Copied paragraph text from source."  (the source text)     *)
(*   short     "Ok then."                                                  *)
(*   code      "```\nprint(1)\n```"                                        *)
(*   list      "- first item in the list\n- first item in the list"        *)
(*   item      "- first item in the list"                                  *)
(*   list_ws   "- first item in the list \n- first item in the list", the   *)
(*             first item ends with a blank                                *)
(*   item_ws   "- first item in the list "                                 *)
(*   marker    "[IMAGE]"                                                   *)
(*   preamble  "Here's the optimized content:"                             *)
(*   html      "<h2>Part</h2> <h3>Sub</h3> <a href=\"/x\">more</a>"          *)
(*   imgref    "![pic](images/pic<a>)"   reference to asset number a       *)
(* so that word counts, character counts and sentence boundaries are the   *)
(* ones the Python code computes on these strings.                         *)
(*                                                                         *)
(* Numbers.  Scores are integers in hundredths (88.25 is 8825), the two    *)
(* decimals the code rounds to.  Sums inside _calculate_quality_score are  *)
(* carried in units of 10^-4.  At an exact decimal tie Python's round()    *)
(* on a binary float may go either way; the model rounds half up, which    *)
(* can differ from the build by 0.01 at such a tie.                        *)
(***************************************************************************)
EXTENDS Integers, Sequences, FiniteSets, TLC

(***************************************************************************)
(* Bounds of the model.                                                    *)
(***************************************************************************)
MaxIterations == 3
MaxImages == 2
MaxQualityBlocks == 6
MaxRewriteBlocks == 4
MaxAssets == 3
MaxImageBlocks == 5
MaxSeoBlocks == 4
MaxPublishRetries == 3
MaxSuggestions == 2
MaxTags == 3
MaxWorkers == 2

(***************************************************************************)
(* Program constants.                                                      *)
(***************************************************************************)
max_rewrite_attempts == 3
DefaultQualityThreshold == 70
DefaultSeoThreshold == 80
MaxBonus == 5

(***************************************************************************)
(* Helpers.                                                                *)
(***************************************************************************)
Min(a, b) == IF a <= b THEN a ELSE b
Max(a, b) == IF a >= b THEN a ELSE b

\* round(n/d) to the nearest integer, for n >= 0 and d > 0
RoundDiv(n, d) == (2 * n + d) \div (2 * d)

RECURSIVE SumSeq(_)
SumSeq(s) == IF s = <<>> THEN 0 ELSE Head(s) + SumSeq(Tail(s))

(***************************************************************************)
(* Blocks and texts.                                                       *)
(***************************************************************************)
Kinds == {"heading", "para", "easy", "copied", "short", "code", "list",
          "item", "list_ws", "item_ws", "marker", "preamble", "html",
          "imgref"}

B(kind) == [k |-> kind, a |-> 0]
ImgRef(i) == [k |-> "imgref", a |-> i]

\* the text whose blocks have the kinds listed in ks
T(ks) == [i \in DOMAIN ks |-> B(ks[i])]

\* len(block)
BlockLen(b) ==
    CASE b.k = "heading" -> 21
      [] b.k = "para" -> 38
      [] b.k = "easy" -> 24
      [] b.k = "copied" -> 34
      [] b.k = "short" -> 8
      [] b.k = "code" -> 16
      [] b.k = "list" -> 49
      [] b.k = "item" -> 24
      [] b.k = "list_ws" -> 50
      [] b.k = "item_ws" -> 25
      [] b.k = "marker" -> 7
      [] b.k = "preamble" -> 29
      [] b.k = "html" -> 48
      [] b.k = "imgref" -> 19

\* len(block.split())
BlockWords(b) ==
    CASE b.k = "heading" -> 4
      [] b.k = "para" -> 6
      [] b.k = "easy" -> 12
      [] b.k = "copied" -> 5
      [] b.k = "short" -> 2
      [] b.k = "code" -> 3
      [] b.k = "list" -> 12
      [] b.k = "item" -> 6
      [] b.k = "list_ws" -> 12
      [] b.k = "item_ws" -> 6
      [] b.k = "marker" -> 1
      [] b.k = "preamble" -> 4
      [] b.k = "html" -> 4
      [] b.k = "imgref" -> 1

\* sum(len(word) for word in block.split())
BlockChars(b) ==
    CASE b.k = "heading" -> 18
      [] b.k = "para" -> 33
      [] b.k = "easy" -> 13
      [] b.k = "copied" -> 30
      [] b.k = "short" -> 7
      [] b.k = "code" -> 14
      [] b.k = "list" -> 38
      [] b.k = "item" -> 19
      [] b.k = "list_ws" -> 38
      [] b.k = "item_ws" -> 19
      [] b.k = "marker" -> 7
      [] b.k = "preamble" -> 26
      [] b.k = "html" -> 45
      [] b.k = "imgref" -> 19

\* the block ends with one of . ! ? and has text before it
EndsSentence(b) == b.k \in {"para", "easy", "copied", "short"}
\* the block starts with one of . ! ? and has text after it
StartsWithBang(b) == b.k = "imgref"

\* content.count('[IMAGE]')
CountMarkers(text) == Cardinality({i \in DOMAIN text : text[i].k = "marker"})
\* '[IMAGE]' in content
HasMarker(text) == \E i \in DOMAIN text : text[i].k = "marker"
\* number of Markdown image references
CountImgRefs(text) == Cardinality({i \in DOMAIN text : text[i].k = "imgref"})

TextWords(text) == SumSeq([i \in DOMAIN text |-> BlockWords(text[i])])
TextChars(text) == SumSeq([i \in DOMAIN text |-> BlockChars(text[i])])
\* len(content): the blocks and the two newlines between neighbours
TextLen(text) ==
    IF text = <<>> THEN 0
    ELSE SumSeq([i \in DOMAIN text |-> BlockLen(text[i])]) + 2 * (Len(text) - 1)

(***************************************************************************)
(* Sentences: re.split(r'[.!?]+', content), empty pieces dropped.  A piece *)
(* runs across block boundaries until the next punctuation mark; open      *)
(* says that the piece being read already holds text.                      *)
(*   Sentences(text, open)[1]  number of sentences                         *)
(*   Sentences(text, open)[2]  sentences longer than 10 characters that    *)
(*                             occur verbatim in the source text           *)
(***************************************************************************)
RECURSIVE Sentences(_, _)
Sentences(text, open) ==
    IF text = <<>> THEN <<IF open THEN 1 ELSE 0, 0>>
    ELSE LET b == Head(text)
             rest == Tail(text)
         IN  IF EndsSentence(b)
             THEN LET r == Sentences(rest, FALSE)
                  IN  <<r[1] + 1,
                        r[2] + (IF b.k = "copied" /\ ~open THEN 1 ELSE 0)>>
             ELSE IF StartsWithBang(b)
             THEN LET r == Sentences(rest, TRUE)
                  IN  <<r[1] + (IF open THEN 1 ELSE 0), r[2]>>
             ELSE Sentences(rest, TRUE)

SentenceCount(text) == Sentences(text, FALSE)[1]
SimilarCount(text) == Sentences(text, FALSE)[2]

(***************************************************************************)
(* ContentEvaluator (src/utils/content_evaluator.py).  The configuration   *)
(* is a record ec with the fields the constructor reads.                   *)
(***************************************************************************)
DefaultEvaluatorConfig ==
    [min_readability_score |-> 60, min_originality_score |-> 70,
     max_avg_sentence_length |-> 25, min_paragraph_count |-> 5,
     threshold |-> DefaultQualityThreshold, forbidden_terms |-> {}]

\* dict.get(key, default)
Get(rec, key, default) == IF key \in DOMAIN rec THEN rec[key] ELSE default

\* 206.835 - 1.015 * words/sentences - 84.6 * chars/words, clamped to
\* [0, 100] and rounded to two decimals
_calculate_readability_score(text) ==
    LET s == SentenceCount(text)
        w == TextWords(text)
        c == TextChars(text)
        num == 206835 * s * w - 1015 * w * w - 84600 * c * s
    IN  IF s = 0 \/ w = 0 THEN 0
        ELSE IF num <= 0 THEN 0
        ELSE Min(10000, RoundDiv(num, 10 * s * w))

_calculate_originality_score(text, hasOriginal) ==
    IF ~hasOriginal THEN 10000
    ELSE LET s == SentenceCount(text)
         IN  IF s = 0 THEN 0
             ELSE 10000 - RoundDiv(10000 * SimilarCount(text), s)

_calculate_avg_sentence_length(text) ==
    LET s == SentenceCount(text)
    IN  IF s = 0 THEN 0 ELSE RoundDiv(100 * TextWords(text), s)

\* blocks separated by blank lines, plus one per [IMAGE] marker
_count_paragraphs(text) == Len(text) + CountMarkers(text)

\* min(5, image_count * 1): one point per marker, at most five
multimedia_bonus(image_count) == Min(MaxBonus, image_count)

\* min(100, total_score), in units of 10^-4
ScoreUncapped(total) == total
CapScore(total) == Min(1000000, total)

\* the four weighted factors, in units of 10^-4
QualityFactors(ec, readability, originality, avg_len, paragraphs) ==
    LET rf == IF readability >= 100 * ec.min_readability_score THEN 300000
              ELSE (3000 * readability) \div ec.min_readability_score
        of == IF originality >= 100 * ec.min_originality_score THEN 300000
              ELSE (3000 * originality) \div ec.min_originality_score
        sf == IF avg_len <= 100 * ec.max_avg_sentence_length THEN 250000
              ELSE (25000000 * ec.max_avg_sentence_length) \div avg_len
        pf == IF paragraphs >= ec.min_paragraph_count THEN 150000
              ELSE (150000 * paragraphs) \div ec.min_paragraph_count
    IN  rf + of + sf + pf

_calculate_quality_score(ec, readability, originality, avg_len, paragraphs, image_count) ==
    LET total == QualityFactors(ec, readability, originality, avg_len,
                                paragraphs)
        withBonus == IF image_count > 0
                     THEN total + 10000 * multimedia_bonus(image_count)
                     ELSE total
    IN  RoundDiv(CapScore(withBonus), 100)

\* one suggestion per sub-metric outside its configured bound
_get_quality_suggestions(ec, readability, originality, avg_len, paragraphs) ==
    (IF readability < 100 * ec.min_readability_score
       THEN <<"q_readability">> ELSE <<>>)
    \o (IF originality < 100 * ec.min_originality_score
       THEN <<"q_originality">> ELSE <<>>)
    \o (IF avg_len > 100 * ec.max_avg_sentence_length
       THEN <<"q_sentence_length">> ELSE <<>>)
    \o (IF paragraphs < ec.min_paragraph_count
       THEN <<"q_paragraphs">> ELSE <<>>)

\* a forbidden term occurs in the content; the only term of the sample
\* strings the model lets a configuration forbid is "plainly" (in para).
\* The source text holds no brand pattern, so no brand name is extracted.
_detect_copyright_issues(ec, text) ==
    \E term \in ec.forbidden_terms :
        term = "plainly" /\ \E i \in DOMAIN text : text[i].k = "para"

\* line 80: quality_score < self.quality_threshold or
\* copyright_issues['has_issues']
NeedsRewriteByScore(ec, quality, issues) == quality < 100 * ec.threshold
needs_rewrite(ec, quality, issues) == quality < 100 * ec.threshold \/ issues

evaluate_content(ec, text, hasOriginal) ==
    IF text = <<>>
    THEN [status |-> "error", score |-> 0, needs_rewrite |-> TRUE]
    ELSE LET readability == _calculate_readability_score(text)
             originality == _calculate_originality_score(text, hasOriginal)
             avg_len == _calculate_avg_sentence_length(text)
             paragraphs == _count_paragraphs(text)
             issues == _detect_copyright_issues(ec, text)
             quality == _calculate_quality_score(ec, readability, originality,
                            avg_len, paragraphs, CountMarkers(text))
         IN  [status |-> "success",
              readability_score |-> readability,
              originality_score |-> originality,
              avg_sentence_length |-> avg_len,
              paragraph_count |-> paragraphs,
              quality_score |-> quality,
              copyright_issues |-> issues,
              needs_rewrite |-> needs_rewrite(ec, quality, issues),
              suggestions |->
                  _get_quality_suggestions(ec, readability, originality,
                                           avg_len, paragraphs)
                  \o (IF issues THEN <<"q_forbidden_term">> ELSE <<>>)]

(***************************************************************************)
(* SEOAnalyzer (src/utils/seo_analyzer.py).  sc is the configuration; the  *)
(* density target is in units of 10^-4 (0.02 is 200).  A title or a        *)
(* description is represented by its length, 0 for None or "".             *)
(***************************************************************************)
DefaultSeoConfig ==
    [min_word_count |-> 800, keyword_density |-> 200,
     meta_description_length |-> 160, title_max_length |-> 60,
     min_internal_links |-> 2, min_images |-> 1,
     min_h2_tags |-> 2, min_h3_tags |-> 3]

\* len(re.findall(re.escape(keyword), block, re.IGNORECASE))
KeywordCountIn(keyword, b) ==
    CASE keyword = "paragraph" /\ b.k \in {"para", "copied"} -> 1
      [] keyword = "copied" /\ b.k = "copied" -> 1
      [] keyword = "item" /\ b.k = "list" -> 2
      [] keyword = "item" /\ b.k = "item" -> 1
      [] OTHER -> 0

KeywordCount(keyword, text) ==
    SumSeq([i \in DOMAIN text |-> KeywordCountIn(keyword, text[i])])

CountKind(text, kind) == Cardinality({i \in DOMAIN text : text[i].k = kind})

Status(ok) == IF ok THEN "good" ELSE "bad"

\* keyword_density * 0.5 <= count / word_count <= keyword_density * 1.5
DensityInBand(sc, count, word_count) ==
    /\ sc.keyword_density * word_count <= 20000 * count
    /\ 20000 * count <= 3 * sc.keyword_density * word_count

\* the report of a text that passed the emptiness test
ContentReport(sc, text, keywords) ==
         LET word_count == TextLen(text)
             links == CountKind(text, "html")
             total_images == CountKind(text, "imgref") + CountMarkers(text)
             h2 == CountKind(text, "html")
             h3 == CountKind(text, "html")
         IN  [status |-> "success",
              word_count |-> word_count,
              word_count_status |-> Status(word_count >= sc.min_word_count),
              keyword_density |->
                  [kw \in {keywords[i] : i \in DOMAIN keywords} |->
                      [count |-> KeywordCount(kw, text),
                       status |-> Status(DensityInBand(sc,
                                     KeywordCount(kw, text), word_count))]],
              internal_links |->
                  [count |-> links,
                   status |-> Status(links >= sc.min_internal_links)],
              images |->
                  [count |-> total_images,
                   status |-> Status(total_images >= sc.min_images)],
              h2_tags |->
                  [count |-> h2, status |-> Status(h2 >= sc.min_h2_tags)],
              h3_tags |->
                  [count |-> h3, status |-> Status(h3 >= sc.min_h3_tags)]]

analyze_content(sc, text, keywords) ==
    IF text = <<>> THEN [status |-> "error"]
    ELSE ContentReport(sc, text, keywords)

analyze_title(sc, title_length) ==
    IF title_length = 0
    THEN [status |-> "error"]
    ELSE [status |-> "success",
          title_length |-> title_length,
          title_length_status |-> Status(title_length <= sc.title_max_length)]

analyze_meta_description(sc, description_length) ==
    IF description_length = 0
    THEN [status |-> "error"]
    ELSE [status |-> "success",
          description_length |-> description_length,
          description_length_status |->
              Status(description_length <= sc.meta_description_length)]

\* the suggestions for the keywords, in the order of the keyword list
RECURSIVE DensitySuggestions(_, _, _)
DensitySuggestions(sc, content_analysis, keywords) ==
    IF keywords = <<>> \/ "keyword_density" \notin DOMAIN content_analysis
    THEN <<>>
    ELSE LET kw == Head(keywords)
             count == content_analysis.keyword_density[kw].count
             wc == content_analysis.word_count
             this == IF 20000 * count < sc.keyword_density * wc
                     THEN <<"s_density_low">>
                     ELSE IF 20000 * count > 3 * sc.keyword_density * wc
                     THEN <<"s_density_high">>
                     ELSE <<>>
         IN  this \o DensitySuggestions(sc, content_analysis, Tail(keywords))

BadStatus(analysis, key) ==
    key \in DOMAIN analysis /\ analysis[key].status = "bad"

\* the content report carries no readability_score, avg_sentence_length or
\* paragraph_count, so .get(..., 0) makes the readability and the paragraph
\* suggestion unconditional and the sentence-length one impossible
get_seo_suggestions(sc, content_analysis, title_analysis, description_analysis, keywords) ==
    LET tl == Get(title_analysis, "title_length", 0)
        dl == Get(description_analysis, "description_length", 0)
    IN  [content |->
            DensitySuggestions(sc, content_analysis, keywords)
            \o <<"s_readability", "s_paragraphs">>
            \o (IF BadStatus(content_analysis, "internal_links")
                THEN <<"s_links">> ELSE <<>>)
            \o (IF BadStatus(content_analysis, "images")
                THEN <<"s_images">> ELSE <<>>)
            \o (IF BadStatus(content_analysis, "h2_tags")
                THEN <<"s_h2">> ELSE <<>>)
            \o (IF BadStatus(content_analysis, "h3_tags")
                THEN <<"s_h3">> ELSE <<>>),
         title |->
            (IF tl > sc.title_max_length THEN <<"s_title_long">>
             ELSE IF tl < 30 THEN <<"s_title_short">> ELSE <<>>)
            \o <<"s_title_keyword">>,
         description |->
            (IF dl > sc.meta_description_length THEN <<"s_description_long">>
             ELSE IF dl < 70 THEN <<"s_description_short">> ELSE <<>>)
            \o <<"s_description_keyword">>]

(***************************************************************************)
(* ImageProcessor (src/utils/image_processor.py).  Block indices are       *)
(* 0-based as in the code; blocks[i + 1] is the block with index i.        *)
(* An operation that contains the position-filling loop returns a record   *)
(* [hang, text]: hang says that the loop never exits (an iteration that    *)
(* leaves image_positions as it found it repeats forever).                 *)
(***************************************************************************)
RECURSIVE Flatten(_)
Flatten(ss) == IF ss = <<>> THEN <<>> ELSE Head(ss) \o Flatten(Tail(ss))

\* the block as it is
KeepBlock(b) == b
\* block.strip(): of the sample strings only the item that ends with a
\* blank changes
StripBlock(b) == IF b.k = "item_ws" THEN B("item") ELSE b

\* a blank-line separated paragraph, stripped, becomes one block, a list
\* paragraph one block per item; the items are not stripped
_split_markdown_blocks(text) ==
    Flatten([i \in DOMAIN text |->
                LET para == StripBlock(text[i])
                IN  IF para.k = "list" THEN <<B("item"), B("item")>>
                    ELSE IF para.k = "list_ws" THEN <<B("item_ws"), B("item")>>
                    ELSE <<para>>])

\* content.replace('[IMAGE]', '')
KeepMarkers(text) == text
RemoveMarkers(text) == SelectSeq(text, LAMBDA b : b.k # "marker")

\* not startswith('#'), not startswith('```'), len(block.strip()) > 20
Suitable(b) == b.k \notin {"heading", "code"} /\ BlockLen(StripBlock(b)) > 20

RECURSIVE SortedSeq(_)
SortedSeq(S) ==
    IF S = {} THEN <<>>
    ELSE LET m == CHOOSE x \in S : \A y \in S : x <= y
         IN  <<m>> \o SortedSeq(S \ {m})

\* the indices of the suitable blocks, all indices when there is none
suitable_positions(blocks) ==
    LET sp == {i \in 0 .. Len(blocks) - 1 : Suitable(blocks[i + 1])}
    IN  SortedSeq(IF sp = {} THEN 0 .. Len(blocks) - 1 ELSE sp)

\* the positions chosen before the filling loop
InitialPositions(sp, n) ==
    LET len == Len(sp)
    IN  IF len = 0 THEN {}
        ELSE IF n = 1 THEN {sp[len \div 2 + 1]}
        ELSE IF n = 2 /\ len >= 2
        THEN {sp[len \div 3 + 1], sp[(2 * len) \div 3 + 1]}
        ELSE LET step == Max(1, len \div (n + 1))
             IN  {sp[Min(len - 1, i * step) + 1] : i \in 1 .. n}

\* the midpoint of the first largest gap between neighbouring positions
InsertAt(pos) ==
    LET ps == SortedSeq(pos)
        gap(i) == ps[i + 1] - ps[i]
        gaps == {gap(i) : i \in 1 .. Len(ps) - 1}
        max_gap == CHOOSE g \in gaps : \A h \in gaps : h <= g
        first == CHOOSE i \in 1 .. Len(ps) - 1 :
                    /\ gap(i) = max_gap
                    /\ \A j \in 1 .. i - 1 : gap(j) < max_gap
    IN  (ps[first] + ps[first + 1]) \div 2

\* one iteration of the while loop
FillStep(pos, sp) ==
    IF Cardinality(pos) >= 2
    THEN pos \cup {InsertAt(pos)}
    ELSE IF 0 \notin pos /\ sp[1] \notin pos THEN pos \cup {sp[1]}
    ELSE pos \cup {sp[Len(sp)]}

\* while len(image_positions) < number_of_images and suitable_positions
RECURSIVE FillPositions(_, _, _)
FillPositions(pos, sp, n) ==
    IF ~(Cardinality(pos) < n /\ sp # <<>>) THEN [hang |-> FALSE, pos |-> pos]
    ELSE LET next == FillStep(pos, sp)
         IN  IF next = pos THEN [hang |-> TRUE, pos |-> pos]
             ELSE FillPositions(next, sp, n)

\* image_positions[:number_of_images]
Truncate(pos, n) ==
    LET ps == SortedSeq(pos)
    IN  {ps[i] : i \in 1 .. Min(n, Len(ps))}

\* every block, followed by a marker when its index is a chosen position
InsertMarkers(blocks, pos) ==
    Flatten([i \in DOMAIN blocks |->
                IF (i - 1) \in pos THEN <<blocks[i], B("marker")>>
                ELSE <<blocks[i]>>])

\* the text as it is
LeaveDistribution(text, number_of_images) == [hang |-> FALSE, text |-> text]

redistribute_images(text, number_of_images) ==
    LET blocks == _split_markdown_blocks(RemoveMarkers(text))
    IN  IF blocks = <<>> THEN [hang |-> FALSE, text |-> text]
        ELSE LET sp == suitable_positions(blocks)
                 filled == FillPositions(InitialPositions(sp, number_of_images),
                                         sp, number_of_images)
             IN  IF filled.hang THEN [hang |-> TRUE, text |-> text]
                 ELSE [hang |-> FALSE,
                       text |-> InsertMarkers(blocks,
                                    Truncate(filled.pos, number_of_images))]

\* the average distance taken from the requested number of images
CheckAgainstRequested(text, number_of_images) ==
    LET paragraphs == _split_markdown_blocks(text)
        pos == {i \in 0 .. Len(paragraphs) - 1 : paragraphs[i + 1].k = "marker"}
        ps == SortedSeq(pos)
        dist == {ps[i + 1] - ps[i] : i \in 1 .. Len(ps) - 1}
    IN  ~(\E d \in dist : d * (number_of_images + 1) > 2 * Len(paragraphs))

\* TRUE when the distribution is reported as reasonable
check_image_distribution(text, number_of_images) ==
    LET paragraphs == _split_markdown_blocks(text)
        pos == {i \in 0 .. Len(paragraphs) - 1 : paragraphs[i + 1].k = "marker"}
        ps == SortedSeq(pos)
        dist == {ps[i + 1] - ps[i] : i \in 1 .. Len(ps) - 1}
    IN  ~(/\ Cardinality(pos) > 1
          /\ \E d \in dist : d * (Cardinality(pos) + 1) > 2 * Len(paragraphs))

\* the references numbered from the last image to the first
RECURSIVE ReplaceMarkersReversed(_, _, _)
ReplaceMarkersReversed(text, images, image_index) ==
    IF text = <<>> THEN <<>>
    ELSE IF Head(text).k = "marker" /\ image_index < Len(images)
    THEN <<ImgRef(Len(images) - image_index)>>
         \o ReplaceMarkersReversed(Tail(text), images, image_index + 1)
    ELSE <<Head(text)>> \o ReplaceMarkersReversed(Tail(text), images, image_index)

\* every marker replaced, the last image repeated when the images run out
RECURSIVE ReplaceEveryMarker(_, _, _)
ReplaceEveryMarker(text, images, image_index) ==
    IF text = <<>> THEN <<>>
    ELSE IF Head(text).k = "marker"
    THEN <<ImgRef(Min(image_index + 1, Len(images)))>>
         \o ReplaceEveryMarker(Tail(text), images, image_index + 1)
    ELSE <<Head(text)>> \o ReplaceEveryMarker(Tail(text), images, image_index)

\* the replacement loop: the i-th marker becomes the reference to the i-th
\* image while images remain; an image without local_path leaves its marker
RECURSIVE ReplaceMarkers(_, _, _)
ReplaceMarkers(text, images, image_index) ==
    IF text = <<>> THEN <<>>
    ELSE IF Head(text).k = "marker" /\ image_index < Len(images)
    THEN <<IF images[image_index + 1] THEN ImgRef(image_index + 1)
           ELSE B("marker")>>
         \o ReplaceMarkers(Tail(text), images, image_index + 1)
    ELSE <<Head(text)>> \o ReplaceMarkers(Tail(text), images, image_index)

\* the replacement loop alone
SubstituteOnly(text, images) == [hang |-> FALSE, text |-> ReplaceMarkers(text, images, 0)]

\* images is the list of the assets; images[i] says that asset i has a
\* local_path
embed_images_in_content(text, images) ==
    IF images = <<>> THEN [hang |-> FALSE, text |-> text]
    ELSE LET n == Len(images)
             first == IF check_image_distribution(text, n)
                      THEN [hang |-> FALSE, text |-> text]
                      ELSE redistribute_images(text, n)
             second == IF first.hang THEN first
                       ELSE IF CountMarkers(first.text) < n
                       THEN redistribute_images(first.text, n)
                       ELSE first
         IN  IF second.hang THEN second
             ELSE [hang |-> FALSE,
                   text |-> ReplaceMarkers(second.text, images, 0)]

(***************************************************************************)
(* WordPressPublisher.publish_post_with_images: the substitution of the    *)
(* uploaded images.  uploaded_images is the sequence of the numbers of the *)
(* assets that have a local_path and whose upload succeeded.               *)
(***************************************************************************)
\* updated_content.replace("[IMAGE]", img_markdown, 1)
RECURSIVE ReplaceFirst(_, _)
ReplaceFirst(text, ref) ==
    IF text = <<>> THEN <<>>
    ELSE IF Head(text).k = "marker" THEN <<ref>> \o Tail(text)
    ELSE <<Head(text)>> \o ReplaceFirst(Tail(text), ref)

\* the loop over uploaded_images from its i-th element on: the first marker
\* becomes the reference to the image; without a marker the loop is left
RECURSIVE updated_content(_, _, _)
updated_content(content, uploaded_images, i) ==
    IF i > Len(uploaded_images) THEN content
    ELSE IF HasMarker(content)
    THEN updated_content(ReplaceFirst(content, ImgRef(uploaded_images[i])),
                         uploaded_images, i + 1)
    ELSE content

(***************************************************************************)
(* main.py: the score arithmetic of the session.                           *)
(***************************************************************************)
None == [none |-> TRUE]

\* 0.6 * content score + 0.25 * title score + 0.15 * description score of
\* the 'score' entries of the three reports, 0 for a report without one
calculate_seo_score(content_analysis, title_analysis, description_analysis) ==
    RoundDiv(60 * Get(content_analysis, "score", 0)
             + 25 * Get(title_analysis, "score", 0)
             + 15 * Get(description_analysis, "score", 0), 100)

\* round(quality_score * 0.6 + seo_score * 0.4, 2)
calculate_combined_score(quality_result, seo_analysis) ==
    RoundDiv(6 * Get(quality_result, "quality_score", 0)
             + 4 * calculate_seo_score(seo_analysis.content_analysis,
                                       seo_analysis.title_analysis,
                                       seo_analysis.description_analysis), 10)

determine_optimization_strategy(quality_result, seo_analysis) ==
    LET quality_score == Get(quality_result, "quality_score", 0)
        seo_score == calculate_seo_score(seo_analysis.content_analysis,
                                         seo_analysis.title_analysis,
                                         seo_analysis.description_analysis)
    IN  IF quality_score < 5000 THEN "focus_on_quality"
        ELSE IF seo_score < 5000 THEN "focus_on_seo"
        ELSE "balanced_optimization"

\* (quality_threshold * 0.6) + (seo_threshold * 0.4), in hundredths
combined_threshold(config) ==
    60 * config.quality_threshold + 40 * config.seo_threshold

\* startswith("Here's the optimized") or "I've optimized" in the first 100
\* characters; of the sample strings only the preamble block matches
HasPreamble(text) == text # <<>> /\ Head(text).k = "preamble"

(***************************************************************************)
(* The inputs of a session.                                                *)
(***************************************************************************)
\* SEOAnalyzer(config) reads its minimums from the keys of the configuration
\* itself: a configuration that sets them low
LenientSeoConfig ==
    [min_word_count |-> 20, keyword_density |-> 200,
     meta_description_length |-> 160, title_max_length |-> 60,
     min_internal_links |-> 0, min_images |-> 0,
     min_h2_tags |-> 0, min_h3_tags |-> 0]

\* (content_quality.threshold, seo.threshold): the defaults and a low pair
ThresholdPairs == {<<DefaultQualityThreshold, DefaultSeoThreshold>>, <<50, 0>>}

\* seo holds the keys SEOAnalyzer reads, evaluator the ones ContentEvaluator
\* reads; max_iterations is the parameter of the session
Configs ==
    {[max_iterations |-> m, quality_threshold |-> t[1],
      seo_threshold |-> t[2], seo |-> sc,
      evaluator |-> [DefaultEvaluatorConfig EXCEPT !.threshold = t[1]]] :
        m \in 1 .. MaxIterations, t \in ThresholdPairs,
        sc \in {DefaultSeoConfig, LenientSeoConfig}}

\* blog_data['images']: every scraped image has a local_path
ImageLists == {[i \in 1 .. n |-> TRUE] : n \in 0 .. MaxImages}

\* the texts the Text Generation Service answers with
ServiceTexts ==
    {T(<<"easy", "easy", "easy", "easy", "easy">>),
     T(<<"para">>),
     T(<<"copied">>),
     T(<<"easy", "easy", "easy">>),
     T(<<"heading", "para", "easy", "html">>),
     T(<<"preamble", "easy", "easy">>),
     T(<<"easy", "marker", "easy">>),
     T(<<"para", "marker", "easy", "marker", "list">>),
     T(<<"copied", "marker", "copied">>)}

\* lengths of the SEO title and description the service answers with;
\* 0 stands for None or ""
TitleLengths == {0, 45, 70}
DescriptionLengths == {0, 120, 200}

(***************************************************************************)
(* The session: step2_rewrite_and_optimize_content.                        *)
(*   pc = "rewrite"     about to call model.rewrite_content (line 145)     *)
(*   pc = "breakpoint"  stopped in pdb.set_trace() (line 201)              *)
(*   pc = "optimize"    about to call model.optimize_content (line 294)    *)
(*   pc = "done"        returned; result is the return value               *)
(*   pc = "crashed"     left by an uncaught exception, named by error      *)
(*   pc = "hung"        inside the position-filling loop that never exits  *)
(* evaluated lists the drafts given to evaluate_content, calls counts the  *)
(* calls of the Text Generation Service, optimize_outcome records what     *)
(* optimize_content answered and regenerated the text it returned.         *)
(* has_original says that a source text is given to evaluate_content; the  *)
(* scraped blog_data['content'] of a session always is.                    *)
(***************************************************************************)
VARIABLES config, images, has_original, pc, attempt, rewritten_content, seo_title,
          seo_description, quality_result, seo_analysis, combined_score,
          strategy, result, error, evaluated, calls, optimize_outcome,
          regenerated

vars == <<config, images, has_original, pc, attempt, rewritten_content, seo_title,
          seo_description, quality_result, seo_analysis, combined_score,
          strategy, result, error, evaluated, calls, optimize_outcome,
          regenerated>>

NoCalls == [rewrite |-> 0, optimize |-> 0]

SessionStart ==
    /\ pc = "rewrite"
    /\ attempt = 0
    /\ rewritten_content = <<>>
    /\ seo_title = 0
    /\ seo_description = 0
    /\ quality_result = [suggestions |-> <<>>]
    /\ seo_analysis = None
    /\ combined_score = 0
    /\ strategy = "none"
    /\ result = None
    /\ error = "none"
    /\ evaluated = <<>>
    /\ calls = NoCalls
    /\ optimize_outcome = "none"
    /\ regenerated = <<>>

Init ==
    /\ config \in Configs
    /\ images \in ImageLists
    /\ has_original = TRUE
    /\ SessionStart

\* lines 145-149: rewrite_content returns None or "" and the loop continues;
\* after the last attempt the function ends without a return statement
RewriteFails ==
    /\ pc = "rewrite"
    /\ attempt < max_rewrite_attempts
    /\ calls' = [calls EXCEPT !.rewrite = @ + 1]
    /\ attempt' = attempt + 1
    /\ pc' = IF attempt + 1 < max_rewrite_attempts THEN "rewrite" ELSE "done"
    /\ UNCHANGED <<config, images, has_original, rewritten_content, seo_title,
                   seo_description, quality_result, seo_analysis,
                   combined_score, strategy, result, error, evaluated,
                   optimize_outcome, regenerated>>

\* lines 145-201: rewrite_content returns text; the draft is evaluated, the
\* SEO title and description are generated and analysed, the combined score
\* is computed, and the function stops in the debugger
RewriteReturns ==
    /\ pc = "rewrite"
    /\ attempt < max_rewrite_attempts
    /\ \E text \in ServiceTexts, title \in TitleLengths,
          description \in DescriptionLengths :
          LET quality == evaluate_content(config.evaluator, text, has_original)
              content_analysis == analyze_content(config.seo, text, <<>>)
              title_analysis == analyze_title(config.seo, title)
              description_analysis ==
                  analyze_meta_description(config.seo, description)
              analysis ==
                  [content_analysis |-> content_analysis,
                   title_analysis |-> title_analysis,
                   description_analysis |-> description_analysis,
                   suggestions |->
                       get_seo_suggestions(config.seo, content_analysis,
                           title_analysis, description_analysis, <<>>),
                   iteration |-> 1]
          IN  /\ rewritten_content' = text
              /\ seo_title' = title
              /\ seo_description' = description
              /\ quality_result' = quality
              /\ seo_analysis' = analysis
              /\ combined_score' = calculate_combined_score(quality, analysis)
              /\ evaluated' = Append(evaluated, text)
    /\ calls' = [calls EXCEPT !.rewrite = @ + 1]
    /\ pc' = "breakpoint"
    /\ UNCHANGED <<config, images, has_original, attempt, strategy, result, error,
                   optimize_outcome, regenerated>>

\* line 201: the operator leaves the debugger with q (or its input is at
\* end of file): bdb.BdbQuit propagates out of the function
DebuggerQuit ==
    /\ pc = "breakpoint"
    /\ pc' = "crashed"
    /\ error' = "BdbQuit"
    /\ UNCHANGED <<config, images, has_original, attempt, rewritten_content, seo_title,
                   seo_description, quality_result, seo_analysis,
                   combined_score, strategy, result, evaluated, calls,
                   optimize_outcome, regenerated>>

\* what the function returns at lines 220-230
AcceptResult ==
    [content |-> rewritten_content,
     title |-> seo_title,
     description |-> seo_description,
     quality_result |-> quality_result,
     seo_analysis |-> seo_analysis,
     quality_score |-> Get(quality_result, "quality_score", 0),
     seo_score |-> calculate_seo_score(seo_analysis.content_analysis,
                       seo_analysis.title_analysis,
                       seo_analysis.description_analysis),
     combined_score |-> combined_score,
     images |-> images]

\* the test of line 217
Accepts(score, threshold) == score >= threshold

\* a session that answers a rejected draft with a new rewrite attempt
RewriteAgainAfterRejection ==
    /\ pc = "breakpoint"
    /\ strategy' = determine_optimization_strategy(quality_result, seo_analysis)
    /\ IF Accepts(combined_score, combined_threshold(config))
       THEN /\ pc' = "done"
            /\ result' = AcceptResult
            /\ UNCHANGED attempt
       ELSE /\ pc' = "rewrite"
            /\ attempt' = attempt + 1
            /\ UNCHANGED result
    /\ UNCHANGED <<config, images, has_original, rewritten_content, seo_title,
                   seo_description, quality_result, seo_analysis,
                   combined_score, error, evaluated, calls,
                   optimize_outcome, regenerated>>

\* lines 202-233: the operator continues; the strategy is determined and
\* the combined score is compared with the combined threshold
DebuggerContinue ==
    /\ pc = "breakpoint"
    /\ strategy' = determine_optimization_strategy(quality_result, seo_analysis)
    /\ IF Accepts(combined_score, combined_threshold(config))
       THEN /\ pc' = "done"
            /\ result' = AcceptResult
       ELSE /\ pc' = "optimize"
            /\ UNCHANGED result
    /\ UNCHANGED <<config, images, has_original, attempt, rewritten_content, seo_title,
                   seo_description, quality_result, seo_analysis,
                   combined_score, error, evaluated, calls,
                   optimize_outcome, regenerated>>

\* lines 306-311 and 322-325: markers are put back when the session has
\* images and the text holds no marker at all
ReinsertMarkers(text) ==
    IF images # <<>> /\ ~HasMarker(text)
    THEN redistribute_images(text, Len(images))
    ELSE [hang |-> FALSE, text |-> text]

\* lines 317-329: the images are embedded into the final content
EmbedFinal(text) ==
    IF images = <<>> THEN [hang |-> FALSE, text |-> text]
    ELSE LET again == ReinsertMarkers(text)
         IN  IF again.hang THEN again
             ELSE embed_images_in_content(again.text, images)

\* what the function returns at lines 340-362
OptimizedResult(content, optimized_quality_result, optimized_content_analysis) ==
    LET analysis == [content_analysis |-> optimized_content_analysis,
                     title_analysis |-> seo_analysis.title_analysis,
                     description_analysis |-> seo_analysis.description_analysis]
    IN  [content |-> content,
         title |-> seo_title,
         description |-> seo_description,
         quality_result |-> optimized_quality_result,
         seo_analysis |-> analysis,
         quality_score |-> Get(optimized_quality_result, "quality_score", 0),
         seo_score |-> calculate_seo_score(optimized_content_analysis,
                           seo_analysis.title_analysis,
                           seo_analysis.description_analysis),
         combined_score |->
             calculate_combined_score(optimized_quality_result, analysis),
         images |-> images]

\* line 296-298: an empty answer is replaced by the rewritten content
FallBack(answer, previous) == IF answer = <<>> THEN previous ELSE answer

\* lines 292-362: optimize_content answers with a text, with "" or, when the
\* service failed, with the content it was given; the answer is checked for
\* a preamble and for markers, evaluated again, the images are embedded and
\* the function returns
Optimize ==
    /\ pc = "optimize"
    /\ \E outcome \in {"text", "empty", "failed"} :
       \E answer \in (CASE outcome = "text" -> ServiceTexts
                        [] outcome = "empty" -> {<<>>}
                        [] outcome = "failed" -> {rewritten_content}) :
          LET optimized == FallBack(answer, rewritten_content)
              marked == ReinsertMarkers(optimized)
              optimized_quality_result ==
                  evaluate_content(config.evaluator, marked.text, has_original)
              optimized_content_analysis ==
                  analyze_content(config.seo, marked.text, <<>>)
              final == EmbedFinal(marked.text)
          IN  /\ optimize_outcome' = outcome
              /\ regenerated' = answer
              /\ IF HasPreamble(optimized)
                 THEN \* line 304: clean_model_output is not defined
                      /\ pc' = "crashed"
                      /\ error' = "NameError"
                      /\ UNCHANGED <<evaluated, result>>
                 ELSE IF marked.hang
                 THEN /\ pc' = "hung"
                      /\ UNCHANGED <<error, evaluated, result>>
                 ELSE IF final.hang
                 THEN /\ pc' = "hung"
                      /\ evaluated' = Append(evaluated, marked.text)
                      /\ UNCHANGED <<error, result>>
                 ELSE /\ pc' = "done"
                      /\ evaluated' = Append(evaluated, marked.text)
                      /\ result' = OptimizedResult(final.text,
                                       optimized_quality_result,
                                       optimized_content_analysis)
                      /\ UNCHANGED error
    /\ calls' = [calls EXCEPT !.optimize = @ + 1]
    /\ UNCHANGED <<config, images, has_original, attempt, rewritten_content, seo_title,
                   seo_description, quality_result, seo_analysis,
                   combined_score, strategy>>

\* the loop of redistribute_images that never exits
Spin ==
    /\ pc = "hung"
    /\ UNCHANGED vars

Next ==
    \/ RewriteFails
    \/ RewriteReturns
    \/ DebuggerQuit
    \/ DebuggerContinue
    \/ Optimize
    \/ Spin

Spec == Init /\ [][Next]_vars

(***************************************************************************)
(* Session with the scheduling the code has: a call that is made returns   *)
(* and the operator at the debugger prompt answers.                        *)
(***************************************************************************)
FairSpec ==
    /\ Spec
    /\ WF_vars(RewriteFails \/ RewriteReturns)
    /\ WF_vars(DebuggerQuit \/ DebuggerContinue)
    /\ WF_vars(Optimize)

(***************************************************************************)
(* evaluate_content as a function: the text, the presence of a source      *)
(* text and the minimums and the maximum of the configuration are drawn    *)
(* from bounded sets and the evaluator is applied once.                    *)
(***************************************************************************)
QualityKinds == {"easy", "copied", "marker"}

QualityTexts ==
    UNION {[1 .. n -> {B(k) : k \in QualityKinds}] : n \in 0 .. MaxQualityBlocks}

\* minimums and maximum of the configuration; the values are not negative
EvaluatorConfigs ==
    {[min_readability_score |-> r, min_originality_score |-> o,
      max_avg_sentence_length |-> a, min_paragraph_count |-> p,
      threshold |-> DefaultQualityThreshold, forbidden_terms |-> {}] :
        r \in {0, 60, 100}, o \in {0, 70}, a \in {0, 5, 25},
        p \in {0, 5, 20}}

InitQuality ==
    /\ config \in {[max_iterations |-> 1,
                    quality_threshold |-> DefaultQualityThreshold,
                    seo_threshold |-> DefaultSeoThreshold,
                    seo |-> DefaultSeoConfig,
                    evaluator |-> ec] : ec \in EvaluatorConfigs}
    /\ images = <<>>
    /\ has_original \in BOOLEAN
    /\ pc = "evaluate_content"
    /\ attempt = 0
    /\ rewritten_content \in QualityTexts
    /\ seo_title = 0
    /\ seo_description = 0
    /\ quality_result = [suggestions |-> <<>>]
    /\ seo_analysis = None
    /\ combined_score = 0
    /\ strategy = "none"
    /\ result = None
    /\ error = "none"
    /\ evaluated = <<>>
    /\ calls = NoCalls
    /\ optimize_outcome = "none"
    /\ regenerated = <<>>

EvaluateContent ==
    /\ pc = "evaluate_content"
    /\ quality_result' =
           evaluate_content(config.evaluator, rewritten_content, has_original)
    /\ evaluated' = Append(evaluated, rewritten_content)
    /\ pc' = "evaluated_content"
    /\ UNCHANGED <<config, images, has_original, attempt, rewritten_content,
                   seo_title, seo_description, seo_analysis, combined_score,
                   strategy, result, error, calls, optimize_outcome,
                   regenerated>>

NextQuality == EvaluateContent

SpecQuality == InitQuality /\ [][NextQuality]_vars

(***************************************************************************)
(* evaluate_content with a quality threshold and forbidden terms: the      *)
(* texts may hold the paragraph with the word "plainly", which a           *)
(* configuration may forbid.                                               *)
(***************************************************************************)
RewriteKinds == {"easy", "copied", "para", "marker"}

RewriteTexts ==
    UNION {[1 .. n -> {B(k) : k \in RewriteKinds}] : n \in 0 .. MaxRewriteBlocks}

\* content_quality.threshold and copyright_protection.forbidden_terms
ThresholdConfigs ==
    {[DefaultEvaluatorConfig EXCEPT !.threshold = t, !.forbidden_terms = f] :
        t \in {50, DefaultQualityThreshold, 90}, f \in {{}, {"plainly"}}}

InitRewrite ==
    /\ config \in {[max_iterations |-> 1,
                    quality_threshold |-> ec.threshold,
                    seo_threshold |-> DefaultSeoThreshold,
                    seo |-> DefaultSeoConfig,
                    evaluator |-> ec] : ec \in ThresholdConfigs}
    /\ images = <<>>
    /\ has_original \in BOOLEAN
    /\ pc = "evaluate_content"
    /\ attempt = 0
    /\ rewritten_content \in RewriteTexts
    /\ seo_title = 0
    /\ seo_description = 0
    /\ quality_result = [suggestions |-> <<>>]
    /\ seo_analysis = None
    /\ combined_score = 0
    /\ strategy = "none"
    /\ result = None
    /\ error = "none"
    /\ evaluated = <<>>
    /\ calls = NoCalls
    /\ optimize_outcome = "none"
    /\ regenerated = <<>>

SpecRewrite == InitRewrite /\ [][NextQuality]_vars

(***************************************************************************)
(* The scorers and the score arithmetic of the session applied to a text,  *)
(* the empty text included: evaluate_content, then the three analyses, the *)
(* suggestions and calculate_combined_score (main.py, lines 152-178).      *)
(***************************************************************************)
AnalyzeContent ==
    /\ pc = "evaluated_content"
    /\ \E title \in TitleLengths, description \in DescriptionLengths :
          LET content_analysis ==
                  analyze_content(config.seo, rewritten_content, <<>>)
              title_analysis == analyze_title(config.seo, title)
              description_analysis ==
                  analyze_meta_description(config.seo, description)
              analysis ==
                  [content_analysis |-> content_analysis,
                   title_analysis |-> title_analysis,
                   description_analysis |-> description_analysis,
                   suggestions |->
                       get_seo_suggestions(config.seo, content_analysis,
                           title_analysis, description_analysis, <<>>),
                   iteration |-> 1]
          IN  /\ seo_title' = title
              /\ seo_description' = description
              /\ seo_analysis' = analysis
              /\ combined_score' =
                     calculate_combined_score(quality_result, analysis)
    /\ pc' = "analyzed_content"
    /\ UNCHANGED <<config, images, has_original, attempt, rewritten_content,
                   quality_result, strategy, result, error, evaluated, calls,
                   optimize_outcome, regenerated>>

NextScorers ==
    \/ EvaluateContent
    \/ AnalyzeContent

SpecScorers == InitRewrite /\ [][NextScorers]_vars

(***************************************************************************)
(* The ImageProcessor operations as functions: a text and a list of        *)
(* assets are drawn from bounded sets and an operation is applied.         *)
(*   rewritten_content  the text given to the operation                    *)
(*   images             the assets; number_of_images is len(images), as at *)
(*                      every call of redistribute_images in the code      *)
(*   regenerated        the text the operation returned                    *)
(*   result             [content |-> the text a second redistribute_images *)
(*                      returned]                                          *)
(*   pc = "place_images", then "redistributed", "redistributed_again",     *)
(*        "embedded", "published", or "hung" when the operation never      *)
(*        returns                                                          *)
(***************************************************************************)
ImageKinds == {"para", "short", "heading", "list", "marker", "imgref"}

ImageTexts ==
    UNION {[1 .. n -> {B(k) : k \in ImageKinds}] : n \in 0 .. MaxImageBlocks}

\* every asset of the list has a local_path
AssetLists == {[i \in 1 .. n |-> TRUE] : n \in 0 .. MaxAssets}

InitImages ==
    /\ config \in {[max_iterations |-> 1,
                    quality_threshold |-> DefaultQualityThreshold,
                    seo_threshold |-> DefaultSeoThreshold,
                    seo |-> DefaultSeoConfig,
                    evaluator |-> DefaultEvaluatorConfig]}
    /\ images \in AssetLists
    /\ has_original = FALSE
    /\ pc = "place_images"
    /\ attempt = 0
    /\ rewritten_content \in ImageTexts
    /\ seo_title = 0
    /\ seo_description = 0
    /\ quality_result = [suggestions |-> <<>>]
    /\ seo_analysis = None
    /\ combined_score = 0
    /\ strategy = "none"
    /\ result = None
    /\ error = "none"
    /\ evaluated = <<>>
    /\ calls = NoCalls
    /\ optimize_outcome = "none"
    /\ regenerated = <<>>

\* redistribute_images(content, len(images))
Redistribute ==
    /\ pc = "place_images"
    /\ LET out == redistribute_images(rewritten_content, Len(images))
       IN  IF out.hang
           THEN pc' = "hung" /\ UNCHANGED regenerated
           ELSE pc' = "redistributed" /\ regenerated' = out.text
    /\ UNCHANGED <<config, images, has_original, attempt, rewritten_content,
                   seo_title, seo_description, quality_result, seo_analysis,
                   combined_score, strategy, result, error, evaluated, calls,
                   optimize_outcome>>

\* redistribute_images applied to the text it returned
RedistributeAgain ==
    /\ pc = "redistributed"
    /\ LET out == redistribute_images(regenerated, Len(images))
       IN  IF out.hang
           THEN pc' = "hung" /\ UNCHANGED result
           ELSE pc' = "redistributed_again" /\ result' = [content |-> out.text]
    /\ UNCHANGED <<config, images, has_original, attempt, rewritten_content,
                   seo_title, seo_description, quality_result, seo_analysis,
                   combined_score, strategy, error, evaluated, calls,
                   optimize_outcome, regenerated>>

\* embed_images_in_content(content, images)
Embed ==
    /\ pc = "place_images"
    /\ LET out == embed_images_in_content(rewritten_content, images)
       IN  IF out.hang
           THEN pc' = "hung" /\ UNCHANGED regenerated
           ELSE pc' = "embedded" /\ regenerated' = out.text
    /\ UNCHANGED <<config, images, has_original, attempt, rewritten_content,
                   seo_title, seo_description, quality_result, seo_analysis,
                   combined_score, strategy, result, error, evaluated, calls,
                   optimize_outcome>>

\* publish_post_with_images(title, content, images): uploads the images
\* with a local_path, any upload may fail, and substitutes the uploaded ones
Publish ==
    /\ pc = "place_images"
    /\ \E uploaded \in SUBSET {i \in DOMAIN images : images[i]} :
          LET uploaded_images == SortedSeq(uploaded)
          IN  result' = [content |-> updated_content(rewritten_content,
                                                     uploaded_images, 1),
                         uploaded |-> Len(uploaded_images)]
    /\ pc' = "published"
    /\ UNCHANGED <<config, images, has_original, attempt, rewritten_content,
                   seo_title, seo_description, quality_result, seo_analysis,
                   combined_score, strategy, error, evaluated, calls,
                   optimize_outcome, regenerated>>

\* check_image_distribution(content, number_of_images) called on its own,
\* number_of_images being the length of images
DistributionKinds == {"para", "list", "marker"}

DistributionTexts ==
    UNION {[1 .. n -> {B(k) : k \in DistributionKinds}] : n \in 0 .. MaxImageBlocks}

InitDistribution ==
    /\ config \in {[max_iterations |-> 1,
                    quality_threshold |-> DefaultQualityThreshold,
                    seo_threshold |-> DefaultSeoThreshold,
                    seo |-> DefaultSeoConfig,
                    evaluator |-> DefaultEvaluatorConfig]}
    /\ images \in AssetLists
    /\ has_original = FALSE
    /\ pc = "check_distribution"
    /\ attempt = 0
    /\ rewritten_content \in DistributionTexts
    /\ seo_title = 0
    /\ seo_description = 0
    /\ quality_result = [suggestions |-> <<>>]
    /\ seo_analysis = None
    /\ combined_score = 0
    /\ strategy = "none"
    /\ result = None
    /\ error = "none"
    /\ evaluated = <<>>
    /\ calls = NoCalls
    /\ optimize_outcome = "none"
    /\ regenerated = <<>>

CheckDistribution ==
    /\ pc = "check_distribution"
    /\ pc' = "checked_distribution"
    /\ result' = [good |-> check_image_distribution(rewritten_content,
                                                    Len(images))]
    /\ UNCHANGED <<config, images, has_original, attempt, rewritten_content,
                   seo_title, seo_description, quality_result, seo_analysis,
                   combined_score, strategy, error, evaluated, calls,
                   optimize_outcome, regenerated>>

SpecDistribution == InitDistribution /\ [][CheckDistribution]_vars

\* redistribute_images applied once and once more to its output
NextRedistribute ==
    \/ Redistribute
    \/ RedistributeAgain
    \/ Spin

\* the texts given to redistribute_images may hold a list with an item that
\* ends with a blank; an image reference is to it a block too short to be
\* marked, as "short" is
RedistributeKinds == {"para", "short", "heading", "list", "list_ws", "marker"}

RedistributeTexts ==
    UNION {[1 .. n -> {B(k) : k \in RedistributeKinds}] : n \in 0 .. MaxImageBlocks}

InitRedistribute ==
    /\ config \in {[max_iterations |-> 1,
                    quality_threshold |-> DefaultQualityThreshold,
                    seo_threshold |-> DefaultSeoThreshold,
                    seo |-> DefaultSeoConfig,
                    evaluator |-> DefaultEvaluatorConfig]}
    /\ images \in AssetLists
    /\ has_original = FALSE
    /\ pc = "place_images"
    /\ attempt = 0
    /\ rewritten_content \in RedistributeTexts
    /\ seo_title = 0
    /\ seo_description = 0
    /\ quality_result = [suggestions |-> <<>>]
    /\ seo_analysis = None
    /\ combined_score = 0
    /\ strategy = "none"
    /\ result = None
    /\ error = "none"
    /\ evaluated = <<>>
    /\ calls = NoCalls
    /\ optimize_outcome = "none"
    /\ regenerated = <<>>

SpecRedistribute == InitRedistribute /\ [][NextRedistribute]_vars

\* embed_images_in_content or the publisher's substitution applied once
NextEmbed ==
    \/ Embed
    \/ Publish
    \/ Spin

SpecEmbed == InitImages /\ [][NextEmbed]_vars

(***************************************************************************)
(* The Text Generation Service: one call of rewrite_content or of          *)
(* optimize_content of a model class.  The variables of the session hold   *)
(* the state of the call:                                                  *)
(*   config            the model class and the method called               *)
(*   rewritten_content the content argument                                *)
(*   attempt           the loop variable of "for attempt in range(3)"      *)
(*   calls             the requests sent to the API so far, per method     *)
(*   evaluated         the requests and the sleeps, in the order they      *)
(*                     happened                                            *)
(*   error             what the outer "except Exception" caught            *)
(*   result            the value returned, None for None                   *)
(*   pc = "request"    about to send a request                             *)
(*   pc = "sleeping"   in time.sleep(retry_delay)                          *)
(*   pc = "returned"   the method has returned result                      *)
(* An answer of the API is a text, a transient error (RateLimitError,      *)
(* APIError, ServiceUnavailableError / APIConnectionError) or any other    *)
(* exception.                                                              *)
(***************************************************************************)
max_retries == 3
retry_delay == 5

ModelClasses == {"OpenAIModel", "AnthropicModel"}
ServiceMethods == {"rewrite_content", "optimize_content"}

\* the texts an answer of the API holds after strip(); "" is one of them
ApiTexts == {<<>>, T(<<"para">>), T(<<"easy", "marker", "easy">>)}

\* OpenAIModel never sets self.client, which its optimize_content reads
HasClient(model_class, method) ==
    ~(model_class = "OpenAIModel" /\ method = "optimize_content")

\* return None of rewrite_content, return content of optimize_content
FailureValue(method, content) ==
    IF method = "rewrite_content" THEN None ELSE [content |-> content]

\* the loop goes on after one more sleep
RetryOnceMore(a) == a < max_retries
\* if attempt < max_retries - 1
ShouldRetry(a) == a < max_retries - 1

InitService ==
    /\ config \in {[model_class |-> c, method |-> m] :
                      c \in ModelClasses, m \in ServiceMethods}
    /\ images = <<>>
    /\ has_original = FALSE
    /\ pc = "request"
    /\ attempt = 0
    /\ rewritten_content \in {T(<<"copied">>), T(<<"easy", "easy">>),
                              T(<<"heading", "para", "marker">>)}
    /\ seo_title = 0
    /\ seo_description = 0
    /\ quality_result = [suggestions |-> <<>>]
    /\ seo_analysis = None
    /\ combined_score = 0
    /\ strategy = "none"
    /\ result = None
    /\ error = "none"
    /\ evaluated = <<>>
    /\ calls = NoCalls
    /\ optimize_outcome = "none"
    /\ regenerated = <<>>

\* the count of the method's requests raised by one
Requested(method) ==
    IF method = "rewrite_content" THEN [calls EXCEPT !.rewrite = @ + 1]
    ELSE [calls EXCEPT !.optimize = @ + 1]

\* one pass of the body of the retry loop: the request and what follows
\* from its answer
Request ==
    /\ pc = "request"
    /\ HasClient(config.model_class, config.method)
    /\ calls' = Requested(config.method)
    /\ \E answer \in {"text", "transient", "other"} :
          /\ evaluated' = Append(evaluated, [e |-> "request", answer |-> answer])
          /\ CASE answer = "text" ->
                    /\ \E text \in ApiTexts : result' = [content |-> text]
                    /\ pc' = "returned"
                    /\ UNCHANGED error
               [] answer = "transient" /\ ShouldRetry(attempt) ->
                    /\ pc' = "sleeping"
                    /\ UNCHANGED <<result, error>>
               [] answer = "transient" /\ ~ShouldRetry(attempt) ->
                    /\ result' = FailureValue(config.method, rewritten_content)
                    /\ error' = "transient"
                    /\ pc' = "returned"
               [] answer = "other" ->
                    /\ result' = FailureValue(config.method, rewritten_content)
                    /\ error' = "other"
                    /\ pc' = "returned"
    /\ UNCHANGED <<config, images, has_original, attempt, rewritten_content,
                   seo_title, seo_description, quality_result, seo_analysis,
                   combined_score, strategy, optimize_outcome, regenerated>>

\* time.sleep(retry_delay) and the next value of the loop variable; a loop
\* that ran out of values would end the method without a return statement
Sleep ==
    /\ pc = "sleeping"
    /\ evaluated' = Append(evaluated, [e |-> "sleep", d |-> retry_delay])
    /\ attempt' = attempt + 1
    /\ IF attempt + 1 < max_retries
       THEN pc' = "request" /\ UNCHANGED result
       ELSE pc' = "returned" /\ result' = None
    /\ UNCHANGED <<config, images, has_original, rewritten_content, seo_title,
                   seo_description, quality_result, seo_analysis,
                   combined_score, strategy, error, calls, optimize_outcome,
                   regenerated>>

\* OpenAIModel.optimize_content: reading self.client raises AttributeError,
\* which the method catches; no request is sent
OptimizeWithoutClient ==
    /\ pc = "request"
    /\ ~HasClient(config.model_class, config.method)
    /\ result' = FailureValue(config.method, rewritten_content)
    /\ error' = "other"
    /\ pc' = "returned"
    /\ UNCHANGED <<config, images, has_original, attempt, rewritten_content,
                   seo_title, seo_description, quality_result, seo_analysis,
                   combined_score, strategy, evaluated, calls,
                   optimize_outcome, regenerated>>

NextService ==
    \/ Request
    \/ Sleep
    \/ OptimizeWithoutClient

SpecService == InitService /\ [][NextService]_vars

(***************************************************************************)
(* SEOAnalyzer applied to a text with a list of keywords: analyze_content, *)
(* analyze_title, analyze_meta_description and get_seo_suggestions.        *)
(*   pc = "analyze_seo", then "analyzed_seo"; seo_analysis holds the       *)
(*   reports, the suggestions and the keywords given                       *)
(***************************************************************************)
SeoKinds == {"easy", "para", "copied", "list"}

SeoTexts ==
    UNION {[1 .. n -> {B(k) : k \in SeoKinds}] : n \in 1 .. MaxSeoBlocks}

\* "copied" matches the "Copied" of the text: the search ignores case
KeywordLists == {<<>>, <<"paragraph">>, <<"copied">>, <<"paragraph", "item">>}

\* min_word_count and keyword_density of the configuration
SeoConfigs ==
    {[DefaultSeoConfig EXCEPT !.min_word_count = w, !.keyword_density = d] :
        w \in {20, 60, 800}, d \in {200, 500}}

InitSeo ==
    /\ config \in {[max_iterations |-> 1,
                    quality_threshold |-> DefaultQualityThreshold,
                    seo_threshold |-> DefaultSeoThreshold,
                    seo |-> sc,
                    evaluator |-> DefaultEvaluatorConfig] : sc \in SeoConfigs}
    /\ images = <<>>
    /\ has_original = FALSE
    /\ pc = "analyze_seo"
    /\ attempt = 0
    /\ rewritten_content \in SeoTexts
    /\ seo_title = 45
    /\ seo_description = 120
    /\ quality_result = [suggestions |-> <<>>]
    /\ seo_analysis = None
    /\ combined_score = 0
    /\ strategy = "none"
    /\ result = None
    /\ error = "none"
    /\ evaluated = <<>>
    /\ calls = NoCalls
    /\ optimize_outcome = "none"
    /\ regenerated = <<>>

\* the three analyses of the SEOAnalyzer and the suggestions made of them
AnalyzeSeo ==
    /\ pc = "analyze_seo"
    /\ \E keywords \in KeywordLists :
          LET content_analysis ==
                  analyze_content(config.seo, rewritten_content, keywords)
              title_analysis == analyze_title(config.seo, seo_title)
              description_analysis ==
                  analyze_meta_description(config.seo, seo_description)
          IN  seo_analysis' =
                  [content_analysis |-> content_analysis,
                   title_analysis |-> title_analysis,
                   description_analysis |-> description_analysis,
                   suggestions |->
                       get_seo_suggestions(config.seo, content_analysis,
                           title_analysis, description_analysis, keywords),
                   keywords |-> keywords]
    /\ pc' = "analyzed_seo"
    /\ UNCHANGED <<config, images, has_original, attempt, rewritten_content,
                   seo_title, seo_description, quality_result, combined_score,
                   strategy, result, error, evaluated, calls, optimize_outcome,
                   regenerated>>

SpecSeo == InitSeo /\ [][AnalyzeSeo]_vars

(***************************************************************************)
(* WordPressPublisher.publish_post.  The variables of the session hold the *)
(* state of the call:                                                      *)
(*   config            api_url set or not, and the arguments max_retries   *)
(*                     and retry_delay                                     *)
(*   rewritten_content the content argument                                *)
(*   attempt           the loop variable of "for attempt in range(...)"    *)
(*   evaluated         the requests and the sleeps, in the order they      *)
(*                     happened                                            *)
(*   result            the value returned, None for None                   *)
(*   pc = "post"           about to send a request, or to leave the loop   *)
(*   pc = "post_sleeping"  in time.sleep(retry_delay)                      *)
(*   pc = "post_returned"  publish_post has returned result                *)
(* An answer is the JSON object of the created post (its id stands for it  *)
(* and for its link) or a RequestException: no connection, an error status *)
(* raised by raise_for_status, a body that is no JSON.                     *)
(***************************************************************************)
PostAnswers == {"failed", "post1", "post2"}

\* requests.post, raise_for_status and response.json() raised nothing
NeverSucceeds(answer) == FALSE
PostSucceeded(answer) == answer # "failed"

InitPublish ==
    /\ config \in {[api_url |-> u, max_retries |-> m, retry_delay |-> d] :
                      u \in BOOLEAN, m \in 0 .. MaxPublishRetries, d \in {1, retry_delay}}
    /\ images = <<>>
    /\ has_original = FALSE
    /\ pc = "post"
    /\ attempt = 0
    /\ rewritten_content \in {T(<<"para">>), T(<<"easy", "imgref", "easy">>)}
    /\ seo_title = 45
    /\ seo_description = 120
    /\ quality_result = [suggestions |-> <<>>]
    /\ seo_analysis = None
    /\ combined_score = 0
    /\ strategy = "none"
    /\ result = None
    /\ error = "none"
    /\ evaluated = <<>>
    /\ calls = NoCalls
    /\ optimize_outcome = "none"
    /\ regenerated = <<>>

\* if not self.api_url: return None
PostUnconfigured ==
    /\ pc = "post"
    /\ ~config.api_url
    /\ result' = None
    /\ pc' = "post_returned"
    /\ UNCHANGED <<config, images, has_original, attempt, rewritten_content,
                   seo_title, seo_description, quality_result, seo_analysis,
                   combined_score, strategy, error, evaluated, calls,
                   optimize_outcome, regenerated>>

\* one pass of the body of the loop: the request and what follows from its
\* answer
PostRequest ==
    /\ pc = "post"
    /\ config.api_url
    /\ attempt < config.max_retries
    /\ \E answer \in PostAnswers :
          /\ evaluated' = Append(evaluated, [e |-> "request", answer |-> answer])
          /\ IF PostSucceeded(answer)
             THEN /\ result' = [link |-> answer]
                  /\ pc' = "post_returned"
             ELSE IF attempt < config.max_retries - 1
             THEN /\ pc' = "post_sleeping"
                  /\ UNCHANGED result
             ELSE /\ result' = None
                  /\ pc' = "post_returned"
    /\ UNCHANGED <<config, images, has_original, attempt, rewritten_content,
                   seo_title, seo_description, quality_result, seo_analysis,
                   combined_score, strategy, error, calls, optimize_outcome,
                   regenerated>>

\* time.sleep(retry_delay) and the next value of the loop variable
PostSleep ==
    /\ pc = "post_sleeping"
    /\ evaluated' = Append(evaluated, [e |-> "sleep", d |-> config.retry_delay])
    /\ attempt' = attempt + 1
    /\ pc' = "post"
    /\ UNCHANGED <<config, images, has_original, rewritten_content, seo_title,
                   seo_description, quality_result, seo_analysis,
                   combined_score, strategy, result, error, calls,
                   optimize_outcome, regenerated>>

\* the loop has no value left: the return None after it
PostLoopEnds ==
    /\ pc = "post"
    /\ config.api_url
    /\ attempt >= config.max_retries
    /\ result' = None
    /\ pc' = "post_returned"
    /\ UNCHANGED <<config, images, has_original, attempt, rewritten_content,
                   seo_title, seo_description, quality_result, seo_analysis,
                   combined_score, strategy, error, evaluated, calls,
                   optimize_outcome, regenerated>>

NextPublish ==
    \/ PostUnconfigured
    \/ PostRequest
    \/ PostSleep
    \/ PostLoopEnds

SpecPublish == InitPublish /\ [][NextPublish]_vars

(***************************************************************************)
(* merge_suggestions (main.py, lines 473-548).  A suggestion is the name   *)
(* of one of the sample strings below; what the function reads of a string *)
(* is its length and the keyword lists of keyword_map that have a keyword  *)
(* in its lower-cased text.  The categories are named in English:          *)
(* readability, keyword, length, heading, link, image stand for the keys   *)
(* of keyword_map in their order, "other" for the list of the rest.        *)
(*   q_readability     the evaluator's readability suggestion, 32 chars    *)
(*   q_originality     the evaluator's originality suggestion, 35 chars    *)
(*   q_sentence_length the evaluator's sentence suggestion, 28 chars       *)
(*   q_paragraphs      the evaluator's paragraph suggestion, 27 chars      *)
(*   q_long            "Readability is poor: shorten every sentence and    *)
(*                     split the long paragraphs into shorter ones,        *)
(*                     please do", 102 chars                               *)
(*   q_short           "abc readability", 15 chars                         *)
(*   s_density_low, s_readability, s_paragraphs, s_links, s_images, s_h2   *)
(*                     the analyzer's content suggestions                  *)
(*   s_short           "xyz readability", 15 chars                         *)
(*   s_title_short, s_title_keyword, s_description_keyword                 *)
(*                     the analyzer's title and description suggestions    *)
(*   h_title, h_description  the two headings merge_suggestions adds       *)
(*   header_<category> "--- <category> Related Suggestions ---"            *)
(* The session variables are reused: quality_result.suggestions and        *)
(* seo_analysis.suggestions are the arguments, result.merged the list      *)
(* returned.                                                               *)
(***************************************************************************)
\* the keys of keyword_map in their order
keyword_map == <<"readability", "keyword", "length", "heading", "link", "image">>

\* the keyword lists that have a keyword in the lower-cased suggestion
SuggestionCategories(s) ==
    CASE s \in {"q_readability", "q_paragraphs", "q_long", "q_short",
                "s_readability", "s_paragraphs", "s_short"} -> {"readability"}
      [] s = "q_sentence_length" -> {"readability", "length"}
      [] s \in {"s_density_low", "s_title_keyword",
                "s_description_keyword"} -> {"keyword"}
      [] s = "s_title_short" -> {"length"}
      [] s \in {"s_h2", "h_title"} -> {"heading"}
      [] s = "s_links" -> {"link"}
      [] s = "s_images" -> {"image"}
      [] OTHER -> {}

\* len(suggestion)
SuggestionLen(s) ==
    CASE s = "q_readability" -> 32
      [] s = "q_originality" -> 35
      [] s = "q_sentence_length" -> 28
      [] s = "q_paragraphs" -> 27
      [] s = "q_long" -> 102
      [] s \in {"q_short", "s_short"} -> 15
      [] s = "s_density_low" -> 77
      [] s = "s_readability" -> 93
      [] s = "s_paragraphs" -> 74
      [] s = "s_links" -> 84
      [] s = "s_images" -> 82
      [] s = "s_h2" -> 92
      [] s = "s_title_short" -> 74
      [] s = "s_title_keyword" -> 62
      [] s = "s_description_keyword" -> 68
      [] OTHER -> 7

\* a quality suggestion that shares a category with a content suggestion
CollidesWithAny(q_suggestion, content_seo_suggestions) ==
    \E i \in DOMAIN content_seo_suggestions :
        SuggestionCategories(q_suggestion)
            \cap SuggestionCategories(content_seo_suggestions[i]) # {}

\* is_duplicate: a content suggestion of a shared category is longer
IsDuplicate(q_suggestion, content_seo_suggestions) ==
    \E i \in DOMAIN content_seo_suggestions :
        /\ SuggestionCategories(q_suggestion)
               \cap SuggestionCategories(content_seo_suggestions[i]) # {}
        /\ SuggestionLen(content_seo_suggestions[i]) > SuggestionLen(q_suggestion)

\* the first category of keyword_map that matches, "other" when none does
CategoryOf(s) ==
    IF SuggestionCategories(s) = {} THEN "other"
    ELSE keyword_map[CHOOSE i \in DOMAIN keyword_map :
                        /\ keyword_map[i] \in SuggestionCategories(s)
                        /\ \A j \in 1 .. i - 1 :
                               keyword_map[j] \notin SuggestionCategories(s)]

CategoryHeader(category) ==
    CASE category = "readability" -> "header_readability"
      [] category = "keyword" -> "header_keyword"
      [] category = "length" -> "header_length"
      [] category = "heading" -> "header_heading"
      [] category = "link" -> "header_link"
      [] category = "image" -> "header_image"

merge_suggestions(quality_suggestions, seo_suggestions) ==
    LET content_seo_suggestions == seo_suggestions.content
        title_seo_suggestions == seo_suggestions.title
        description_seo_suggestions == seo_suggestions.description
        merged ==
            SelectSeq(quality_suggestions,
                      LAMBDA q : ~IsDuplicate(q, content_seo_suggestions))
            \o content_seo_suggestions
            \o (IF title_seo_suggestions # <<>>
                THEN <<"h_title">> \o title_seo_suggestions ELSE <<>>)
            \o (IF description_seo_suggestions # <<>>
                THEN <<"h_description">> \o description_seo_suggestions
                ELSE <<>>)
        categorized(category) ==
            SelectSeq(merged, LAMBDA s : CategoryOf(s) = category)
    IN  Flatten([i \in DOMAIN keyword_map |->
                    IF categorized(keyword_map[i]) # <<>>
                    THEN <<CategoryHeader(keyword_map[i])>>
                         \o categorized(keyword_map[i])
                    ELSE <<>>])
        \o categorized("other")

QualitySamples ==
    {"q_readability", "q_originality", "q_sentence_length", "q_long",
     "q_short"}

ContentSamples ==
    {"s_density_low", "s_readability", "s_links", "s_h2", "s_short"}

SuggestionLists(samples) ==
    UNION {[1 .. n -> samples] : n \in 0 .. MaxSuggestions}

InitMerge ==
    /\ config \in {[max_iterations |-> 1,
                    quality_threshold |-> DefaultQualityThreshold,
                    seo_threshold |-> DefaultSeoThreshold,
                    seo |-> DefaultSeoConfig,
                    evaluator |-> DefaultEvaluatorConfig]}
    /\ images = <<>>
    /\ has_original = FALSE
    /\ pc = "merge"
    /\ attempt = 0
    /\ rewritten_content = <<>>
    /\ seo_title = 0
    /\ seo_description = 0
    /\ quality_result \in
           {[suggestions |-> q] : q \in SuggestionLists(QualitySamples)}
    /\ seo_analysis \in
           {[suggestions |-> [content |-> c, title |-> t, description |-> d]] :
               c \in SuggestionLists(ContentSamples),
               t \in {<<>>, <<"s_title_keyword">>,
                      <<"s_title_short", "s_title_keyword">>},
               d \in {<<>>, <<"s_description_keyword">>}}
    /\ combined_score = 0
    /\ strategy = "none"
    /\ result = None
    /\ error = "none"
    /\ evaluated = <<>>
    /\ calls = NoCalls
    /\ optimize_outcome = "none"
    /\ regenerated = <<>>

\* merge_suggestions(quality_result['suggestions'],
\*                   seo_analysis['suggestions'])
Merge ==
    /\ pc = "merge"
    /\ pc' = "merged"
    /\ result' = [merged |-> merge_suggestions(quality_result.suggestions,
                                               seo_analysis.suggestions)]
    /\ UNCHANGED <<config, images, has_original, attempt, rewritten_content,
                   seo_title, seo_description, quality_result, seo_analysis,
                   combined_score, strategy, error, evaluated, calls,
                   optimize_outcome, regenerated>>

SpecMerge == InitMerge /\ [][Merge]_vars

(***************************************************************************)
(* ImageProcessor.extract_images_from_html (image_processor.py, lines      *)
(* 142-203): the main thread submits one process_image task per img tag to *)
(* a ThreadPoolExecutor of max_workers threads and waits; a worker takes   *)
(* the oldest queued task, downloads the image and appends its record to   *)
(* the list under images_lock.  The session variables are reused:          *)
(*   rewritten_content  img_tags: for each tag what happens to it, "ok"    *)
(*                      (downloaded), "failed" (download_image returns no  *)
(*                      path) or "no_src"                                  *)
(*   config             image_config, its max_concurrent_downloads         *)
(*   quality_result     the position of each task: "none" before it is     *)
(*                      submitted, "queued", "download", "acquire",        *)
(*                      "append" (holding the lock), "finished"            *)
(*   attempt            the task that holds images_lock, 0 when it is free *)
(*   images             the list the workers append to: tag numbers        *)
(*   pc                 the main thread: "extract", "wait", "returned",    *)
(*                      "crashed"                                          *)
(***************************************************************************)
TagOutcomes == {"ok", "failed", "no_src"}

Running(tasks) ==
    Cardinality({i \in DOMAIN tasks :
                    tasks[i] \in {"download", "acquire", "append"}})

\* min(len(img_tags), max_concurrent_downloads)
max_workers(img_tags, image_config) ==
    Min(Len(img_tags), image_config.max_concurrent_downloads)

InitExtract ==
    /\ config \in {[max_concurrent_downloads |-> w] : w \in 1 .. MaxWorkers}
    /\ images = <<>>
    /\ has_original = FALSE
    /\ pc = "extract"
    /\ attempt = 0
    /\ rewritten_content \in UNION {[1 .. n -> TagOutcomes] : n \in 0 .. MaxTags}
    /\ seo_title = 0
    /\ seo_description = 0
    /\ quality_result = [i \in DOMAIN rewritten_content |-> "none"]
    /\ seo_analysis = None
    /\ combined_score = 0
    /\ strategy = "none"
    /\ result = None
    /\ error = "none"
    /\ evaluated = <<>>
    /\ calls = NoCalls
    /\ optimize_outcome = "none"
    /\ regenerated = <<>>

\* lines 156-199: the tags are found, the executor is made and every task
\* is submitted; ThreadPoolExecutor(max_workers=0) raises ValueError
SubmitAll ==
    /\ pc = "extract"
    /\ IF max_workers(rewritten_content, config) <= 0
       THEN /\ pc' = "crashed"
            /\ error' = "ValueError"
            /\ UNCHANGED quality_result
       ELSE /\ pc' = "wait"
            /\ quality_result' = [i \in DOMAIN rewritten_content |-> "queued"]
            /\ UNCHANGED error
    /\ UNCHANGED <<config, images, has_original, attempt, rewritten_content,
                   seo_title, seo_description, seo_analysis, combined_score,
                   strategy, result, evaluated, calls, optimize_outcome,
                   regenerated>>

\* an idle worker takes the oldest queued task; a tag without src returns
\* None at once (lines 160-163)
StartTask ==
    /\ pc = "wait"
    /\ Running(quality_result) < max_workers(rewritten_content, config)
    /\ \E i \in DOMAIN quality_result :
          /\ quality_result[i] = "queued"
          /\ \A j \in 1 .. i - 1 : quality_result[j] # "queued"
          /\ quality_result' =
                 [quality_result EXCEPT ![i] =
                     IF rewritten_content[i] = "no_src" THEN "finished"
                     ELSE "download"]
    /\ UNCHANGED <<config, images, has_original, pc, attempt,
                   rewritten_content, seo_title, seo_description,
                   seo_analysis, combined_score, strategy, result, error,
                   evaluated, calls, optimize_outcome, regenerated>>

\* lines 165-184: download_image returns; without a local path the task
\* returns None
Download ==
    /\ pc = "wait"
    /\ \E i \in DOMAIN quality_result :
          /\ quality_result[i] = "download"
          /\ quality_result' =
                 [quality_result EXCEPT ![i] =
                     IF rewritten_content[i] = "ok" THEN "acquire"
                     ELSE "finished"]
    /\ UNCHANGED <<config, images, has_original, pc, attempt,
                   rewritten_content, seo_title, seo_description,
                   seo_analysis, combined_score, strategy, result, error,
                   evaluated, calls, optimize_outcome, regenerated>>

\* line 186: with images_lock
AcquireLock ==
    /\ pc = "wait"
    /\ attempt = 0
    /\ \E i \in DOMAIN quality_result :
          /\ quality_result[i] = "acquire"
          /\ quality_result' = [quality_result EXCEPT ![i] = "append"]
          /\ attempt' = i
    /\ UNCHANGED <<config, images, has_original, pc, rewritten_content,
                   seo_title, seo_description, seo_analysis, combined_score,
                   strategy, result, error, evaluated, calls,
                   optimize_outcome, regenerated>>

\* lines 187-189: images.append(image_info), the lock is released and the
\* task returns
AppendImage ==
    /\ pc = "wait"
    /\ attempt # 0
    /\ quality_result[attempt] = "append"
    /\ images' = Append(images, attempt)
    /\ quality_result' = [quality_result EXCEPT ![attempt] = "finished"]
    /\ attempt' = 0
    /\ UNCHANGED <<config, has_original, pc, rewritten_content, seo_title,
                   seo_description, seo_analysis, combined_score, strategy,
                   result, error, evaluated, calls, optimize_outcome,
                   regenerated>>

\* lines 201-203: concurrent.futures.wait(futures) returns when every
\* future is done, the executor is shut down and the list is returned
ReturnImages ==
    /\ pc = "wait"
    /\ \A i \in DOMAIN quality_result : quality_result[i] = "finished"
    /\ pc' = "returned"
    /\ result' = [images |-> images]
    /\ UNCHANGED <<config, images, has_original, attempt, rewritten_content,
                   seo_title, seo_description, quality_result, seo_analysis,
                   combined_score, strategy, error, evaluated, calls,
                   optimize_outcome, regenerated>>

NextExtract ==
    \/ SubmitAll
    \/ StartTask
    \/ Download
    \/ AcquireLock
    \/ AppendImage
    \/ ReturnImages

SpecExtract == InitExtract /\ [][NextExtract]_vars

(***************************************************************************)
(* Properties of the quality composite.                                    *)
(***************************************************************************)

NeedsRewriteIffBelowThreshold ==
    (pc = "evaluated_content" /\ rewritten_content # <<>>) =>
        (quality_result.needs_rewrite <=>
            quality_result.quality_score < 100 * config.evaluator.threshold)

\* C11: for every non-empty text needs_rewrite is true if and only if the
\* composite is below the quality threshold or the report flags a
\* copyright issue (a forbidden term of the configuration occurs in the
\* text); for a text without a copyright issue it is true exactly when the
\* composite is below the threshold.
NeedsRewriteIffBelowThresholdOrIssue ==
    (pc = "evaluated_content" /\ rewritten_content # <<>>) =>
        /\ quality_result.needs_rewrite <=>
               (\/ quality_result.quality_score
                       < 100 * config.evaluator.threshold
                \/ quality_result.copyright_issues)
        /\ quality_result.copyright_issues <=>
               (/\ "plainly" \in config.evaluator.forbidden_terms
                /\ \E i \in DOMAIN rewritten_content :
                       rewritten_content[i].k = "para")

\* a text that holds a forbidden term and whose composite reaches the
\* threshold has been evaluated
RewriteNeededForIssueOnly ==
    /\ pc = "evaluated_content"
    /\ rewritten_content # <<>>
    /\ quality_result.copyright_issues
    /\ quality_result.quality_score >= 100 * config.evaluator.threshold
    /\ quality_result.needs_rewrite

\* C12 as stated: given the empty text, evaluate_content and
\* analyze_content each return a report that carries score 0 and
\* needs_rewrite = true, and the combined score computed from the reports
\* is 0.
EmptyTextReportsCarryZeroScore ==
    (pc = "analyzed_content" /\ rewritten_content = <<>>) =>
        /\ Get(quality_result, "score", 1) = 0
        /\ Get(quality_result, "needs_rewrite", FALSE)
        /\ Get(seo_analysis.content_analysis, "score", 1) = 0
        /\ Get(seo_analysis.content_analysis, "needs_rewrite", FALSE)
        /\ combined_score = 0

\* C12: given the empty text, both scorers return an error report and no
\* error is raised: the report of evaluate_content carries score 0 and
\* needs_rewrite = true, the report of analyze_content carries the error
\* status and neither a score nor needs_rewrite, and the SEO score and the
\* combined score computed from these reports are 0.
EmptyTextReportsAreErrorValues ==
    (pc = "analyzed_content" /\ rewritten_content = <<>>) =>
        /\ error = "none"
        /\ quality_result.status = "error"
        /\ quality_result.score = 0
        /\ quality_result.needs_rewrite
        /\ seo_analysis.content_analysis.status = "error"
        /\ "score" \notin DOMAIN seo_analysis.content_analysis
        /\ "needs_rewrite" \notin DOMAIN seo_analysis.content_analysis
        /\ calculate_seo_score(seo_analysis.content_analysis,
               seo_analysis.title_analysis,
               seo_analysis.description_analysis) = 0
        /\ combined_score = 0

\* the empty text has been given to both scorers and the combined score
\* has been computed
EmptyTextScored ==
    /\ pc = "analyzed_content"
    /\ rewritten_content = <<>>
    /\ evaluated = <<<<>>>>
    /\ seo_analysis # None
    /\ seo_analysis.content_analysis.status = "error"

(***************************************************************************)
(* Properties of redistribute_images.  The eligible blocks of a text are   *)
(* the blocks of the text without its markers that are no heading, no code *)
(* block and longer than 20 characters.                                    *)
(***************************************************************************)

\* C13: for a text with at least n eligible blocks, redistribute_images
\* returns, and the text it returns holds exactly n markers, whatever the
\* number of markers the text had.
RedistributePlacesExactlyN ==
    LET blocks == _split_markdown_blocks(RemoveMarkers(rewritten_content))
        eligible == Cardinality({i \in DOMAIN blocks : Suitable(blocks[i])})
    IN  eligible >= Len(images) =>
            /\ ~(pc = "hung" /\ regenerated = <<>>)
            /\ pc = "redistributed" => CountMarkers(regenerated) = Len(images)

\* C14: redistribute_images returns for every text and every n, also when
\* n is not smaller than the number of eligible blocks; a text with fewer
\* than n eligible blocks comes back with fewer than n markers.
RedistributeReturnsOnShortfall ==
    LET blocks == _split_markdown_blocks(RemoveMarkers(rewritten_content))
        eligible == Cardinality({i \in DOMAIN blocks : Suitable(blocks[i])})
    IN  /\ pc # "hung"
        /\ (pc = "redistributed" /\ eligible < Len(images)) =>
               CountMarkers(regenerated) < Len(images)

\* C15 as stated: whenever redistribute_images returns, a second call with
\* the same n on its output returns a text with exactly n markers and with
\* the same blocks and markers after the same blocks.
RedistributeTwiceExactlyN ==
    pc = "redistributed_again" =>
        /\ CountMarkers(result.content) = Len(images)
        /\ result.content = regenerated

\* C15: whenever redistribute_images returns, a second call with the same
\* n on its output returns too, and it returns the blocks it was given, each
\* stripped of the blanks around it, with the markers after the same
\* blocks.  For a text that holds a block other than a marker both texts
\* hold exactly n markers; a text that is empty or holds only markers is
\* returned as it is.
RedistributeTwiceSameText ==
    LET has_block == \E i \in DOMAIN rewritten_content :
                         rewritten_content[i].k # "marker"
    IN  /\ ~(pc = "hung" /\ regenerated # <<>>)
        /\ pc = "redistributed_again" =>
               /\ result.content =
                      [i \in DOMAIN regenerated |-> StripBlock(regenerated[i])]
               /\ has_block =>
                      /\ CountMarkers(regenerated) = Len(images)
                      /\ CountMarkers(result.content) = Len(images)
               /\ ~has_block => regenerated = rewritten_content

\* a text with a list and with a number of markers other than n >= 2 has
\* been redistributed twice
RedistributedTwice ==
    /\ pc = "redistributed_again"
    /\ Len(images) >= 2
    /\ CountMarkers(rewritten_content) \notin {0, Len(images)}
    /\ \E i \in DOMAIN rewritten_content : rewritten_content[i].k = "list"
    /\ CountMarkers(result.content) = Len(images)
    /\ result.content # rewritten_content

(***************************************************************************)
(* Properties of embed_images_in_content and of the publisher's            *)
(* substitution.  m is the number of markers of the text, k the number of  *)
(* supplied assets; a reference to asset i >= 1 is ImgRef(i), a reference  *)
(* the text held before is ImgRef(0).                                      *)
(***************************************************************************)

\* C16 as stated: for every i up to min(m, k) the i-th marker of the text
\* is replaced by the reference to the i-th asset, and the text other than
\* markers keeps its order.
EmbedReplacesIthMarker ==
    LET m == CountMarkers(rewritten_content)
        k == Len(images)
        p(i) == CHOOSE j \in DOMAIN rewritten_content :
                    /\ rewritten_content[j].k = "marker"
                    /\ CountMarkers(SubSeq(rewritten_content, 1, j)) = i
        Plain(text) == SelectSeq(text, LAMBDA b :
                           b.k # "marker" /\ ~(b.k = "imgref" /\ b.a > 0))
    IN  pc = "embedded" =>
            /\ \A i \in 1 .. Min(m, k) :
                   p(i) <= Len(regenerated) /\ regenerated[p(i)] = ImgRef(i)
            /\ _split_markdown_blocks(Plain(regenerated))
                   = _split_markdown_blocks(Plain(rewritten_content))

\* C16: the text embed_images_in_content returns holds the references to
\* the assets 1 .. r, r <= k, from left to right in this order, and the
\* text other than markers keeps its order; when the markers are evenly
\* distributed and m >= k, so that no redistribution takes place, r = k
\* and the i-th marker of the text is replaced by the reference to the
\* i-th asset.
EmbedReplacesInOrder ==
    LET m == CountMarkers(rewritten_content)
        k == Len(images)
        p(i) == CHOOSE j \in DOMAIN rewritten_content :
                    /\ rewritten_content[j].k = "marker"
                    /\ CountMarkers(SubSeq(rewritten_content, 1, j)) = i
        NewRefs(text) == SelectSeq(text, LAMBDA b : b.k = "imgref" /\ b.a > 0)
        Plain(text) == SelectSeq(text, LAMBDA b :
                           b.k # "marker" /\ ~(b.k = "imgref" /\ b.a > 0))
        r == Len(NewRefs(regenerated))
    IN  pc = "embedded" =>
            /\ r <= k
            /\ NewRefs(regenerated) = [i \in 1 .. r |-> ImgRef(i)]
            /\ _split_markdown_blocks(Plain(regenerated))
                   = _split_markdown_blocks(Plain(rewritten_content))
            /\ (check_image_distribution(rewritten_content, k) /\ m >= k) =>
                   /\ r = k
                   /\ Len(regenerated) = Len(rewritten_content)
                   /\ \A i \in 1 .. k : regenerated[p(i)] = ImgRef(i)

\* two or more evenly distributed markers between paragraphs have been
\* replaced by the references to as many assets
EmbeddedInOrder ==
    /\ pc = "embedded"
    /\ Len(images) >= 2
    /\ CountMarkers(rewritten_content) >= Len(images)
    /\ check_image_distribution(rewritten_content, Len(images))
    /\ \E i \in DOMAIN rewritten_content : rewritten_content[i].k = "para"
    /\ \E i, j \in DOMAIN regenerated :
          i < j /\ regenerated[i] = ImgRef(1) /\ regenerated[j] = ImgRef(2)

\* C17 as stated: when m > k >= 1 only the first k markers are replaced and
\* each of the other m - k markers stays where it is.
EmbedLeavesSurplusMarkers ==
    LET m == CountMarkers(rewritten_content)
        k == Len(images)
    IN  (pc = "embedded" /\ m > k /\ k >= 1) =>
            regenerated = ReplaceMarkers(rewritten_content, images, 0)

\* C17: when m > k >= 1 and the markers are evenly distributed, only the
\* first k markers are replaced and each of the other m - k markers stays
\* where it is; when they are unevenly distributed the text is
\* redistributed for k images, and the text returned holds k references
\* and no marker.
EmbedLeavesSurplusMarkersWhenEven ==
    LET m == CountMarkers(rewritten_content)
        k == Len(images)
        NewRefs(text) == SelectSeq(text, LAMBDA b : b.k = "imgref" /\ b.a > 0)
    IN  (pc = "embedded" /\ m > k /\ k >= 1) =>
            IF check_image_distribution(rewritten_content, k)
            THEN /\ regenerated = ReplaceMarkers(rewritten_content, images, 0)
                 /\ CountMarkers(regenerated) = m - k
            ELSE /\ CountMarkers(regenerated) = 0
                 /\ Len(NewRefs(regenerated)) = k

\* a text with evenly distributed markers, more than assets, has been
\* embedded and keeps a marker
EmbeddedWithSurplusMarkers ==
    /\ pc = "embedded"
    /\ Len(images) >= 1
    /\ CountMarkers(rewritten_content) > Len(images)
    /\ check_image_distribution(rewritten_content, Len(images))
    /\ \E i \in DOMAIN rewritten_content : rewritten_content[i].k = "para"
    /\ CountMarkers(regenerated) >= 1
    /\ CountImgRefs(regenerated) >= 1

\* C18 as stated: when k > m the surplus assets are dropped, no marker is
\* created, and the text returned holds exactly m references.
EmbedDropsSurplusAssets ==
    LET m == CountMarkers(rewritten_content)
        k == Len(images)
        NewRefs(text) == SelectSeq(text, LAMBDA b : b.k = "imgref" /\ b.a > 0)
    IN  (pc = "embedded" /\ k > m) =>
            /\ Len(NewRefs(regenerated)) = m
            /\ CountMarkers(regenerated) = 0

\* C18: the publisher's substitution drops the surplus of the uploaded
\* assets: its text holds min(m, uploaded) references and the other
\* markers.  embed_images_in_content with k > m creates the missing
\* markers by redistribution: the text it returns holds k references when
\* the text has a block other than a marker, m references otherwise, and no
\* marker.
SurplusAssetsDroppedByPublisherOnly ==
    LET m == CountMarkers(rewritten_content)
        k == Len(images)
        NewRefs(text) == SelectSeq(text, LAMBDA b : b.k = "imgref" /\ b.a > 0)
        has_block == \E i \in DOMAIN rewritten_content :
                         rewritten_content[i].k # "marker"
    IN  /\ (pc = "embedded" /\ k > m) =>
               /\ Len(NewRefs(regenerated)) = IF has_block THEN k ELSE m
               /\ CountMarkers(regenerated) = 0
        /\ pc = "published" =>
               /\ Len(NewRefs(result.content)) = Min(m, result.uploaded)
               /\ CountMarkers(result.content) = m - Min(m, result.uploaded)
               /\ Len(result.content) = Len(rewritten_content)

\* a text with a paragraph and with markers, fewer than assets, has been
\* embedded and holds a reference to every asset
EmbeddedWithSurplusAssets ==
    /\ pc = "embedded"
    /\ CountMarkers(rewritten_content) >= 1
    /\ Len(images) > CountMarkers(rewritten_content)
    /\ \E i \in DOMAIN rewritten_content : rewritten_content[i].k = "para"
    /\ \A a \in DOMAIN images : \E i \in DOMAIN regenerated :
          regenerated[i] = ImgRef(a)

\* C19: for a text with exactly k markers and k supplied assets
\* embed_images_in_content returns, and the text it returns holds no marker
\* and k references.
EmbedRoundTrip ==
    LET m == CountMarkers(rewritten_content)
        k == Len(images)
        NewRefs(text) == SelectSeq(text, LAMBDA b : b.k = "imgref" /\ b.a > 0)
    IN  m = k =>
            /\ pc # "hung"
            /\ pc = "embedded" =>
                   /\ CountMarkers(regenerated) = 0
                   /\ Len(NewRefs(regenerated)) = k

\* C20: the text embed_images_in_content returns, and the text of the
\* publisher's substitution, hold at most len(assets) image references
\* more than the text given.
EmbedAddsAtMostAssets ==
    /\ pc = "embedded" =>
           CountImgRefs(regenerated)
               <= CountImgRefs(rewritten_content) + Len(images)
    /\ pc = "published" =>
           CountImgRefs(result.content)
               <= CountImgRefs(rewritten_content) + Len(images)

\* a text that holds an image reference and fewer markers than the two or
\* more assets has been embedded with a reference to every asset
EmbeddedEveryAsset ==
    /\ pc = "embedded"
    /\ Len(images) >= 2
    /\ CountImgRefs(rewritten_content) >= 1
    /\ CountMarkers(rewritten_content) < Len(images)
    /\ CountImgRefs(regenerated)
           = CountImgRefs(rewritten_content) + Len(images)

(***************************************************************************)
(* Properties of a session.  The SEO composite the properties speak of is  *)
(* the one computed from the checks of the three reports: each sub-score   *)
(* is the fraction of the checks of its report that passed, in hundredths  *)
(* of a point, and the report of an empty input passes none.  The checks   *)
(* of the content report are the word count, every keyword's density, the  *)
(* internal links, the images and the h2 and h3 headings; the title and    *)
(* the description report have the length check.                           *)
(***************************************************************************)

\* C1: a session performs at most max_iterations score evaluations of a
\* draft, whatever the Text Generation Service answers.
EvaluationsWithinBudget == Len(evaluated) <= config.max_iterations

\* C2: a session that returns returns a draft with its reports, never an
\* empty result, even when every rewrite call answers with nothing.
SessionReturnsDraft == pc = "done" => result # None

\* C3: at the evaluation the session accepts if and only if
\* 0.6 * quality composite + 0.4 * SEO composite reaches
\* 0.6 * quality_threshold + 0.4 * seo_threshold; on acceptance it returns
\* the draft just evaluated with both of its reports and has made no
\* optimize call.
AcceptIffCombinedReachesThreshold ==
    (pc = "optimize" \/ (pc = "done" /\ result # None /\ calls.optimize = 0))
    => LET ca == seo_analysis.content_analysis
           ta == seo_analysis.title_analysis
           da == seo_analysis.description_analysis
           passed ==
               (IF ca.word_count_status = "good" THEN 1 ELSE 0)
               + Cardinality({c \in {"internal_links", "images", "h2_tags",
                                     "h3_tags"} : ca[c].status = "good"})
               + Cardinality({kw \in DOMAIN ca.keyword_density :
                                 ca.keyword_density[kw].status = "good"})
           content_sub_score ==
               IF ca.status = "error" THEN 0
               ELSE (10000 * passed)
                    \div (5 + Cardinality(DOMAIN ca.keyword_density))
           title_sub_score ==
               IF ta.status # "error" /\ ta.title_length_status = "good"
               THEN 10000 ELSE 0
           description_sub_score ==
               IF da.status # "error" /\ da.description_length_status = "good"
               THEN 10000 ELSE 0
           seo_composite ==
               (60 * content_sub_score + 25 * title_sub_score
                + 15 * description_sub_score) \div 100
       IN  /\ (pc = "done") <=>
                  6 * Get(quality_result, "quality_score", 0)
                  + 4 * seo_composite >= 10 * combined_threshold(config)
           /\ pc = "done" =>
                  /\ result.content = evaluated[Len(evaluated)]
                  /\ result.quality_result = quality_result
                  /\ result.seo_analysis = seo_analysis

\* C4: a session whose drafts never reach the combined threshold keeps
\* optimizing and evaluating until max_iterations drafts have been
\* evaluated, and only then returns the last draft: with max_iterations = 3
\* it returns the third draft.
BudgetSpentBeforeGivingUp ==
    (/\ pc = "done"
     /\ result # None
     /\ result.combined_score < combined_threshold(config))
        => Len(evaluated) >= config.max_iterations

\* C5: for an evaluated draft that is not accepted the strategy is
\* focus_on_quality when the quality composite is below 50, focus_on_seo
\* when the quality composite is at least 50 and the SEO composite is below
\* 50, and balanced_optimization when both are at least 50.
StrategyFollowsComposites ==
    pc = "optimize" =>
        LET ca == seo_analysis.content_analysis
            ta == seo_analysis.title_analysis
            da == seo_analysis.description_analysis
            passed ==
                (IF ca.word_count_status = "good" THEN 1 ELSE 0)
                + Cardinality({c \in {"internal_links", "images", "h2_tags",
                                      "h3_tags"} : ca[c].status = "good"})
                + Cardinality({kw \in DOMAIN ca.keyword_density :
                                  ca.keyword_density[kw].status = "good"})
            content_sub_score ==
                IF ca.status = "error" THEN 0
                ELSE (10000 * passed)
                     \div (5 + Cardinality(DOMAIN ca.keyword_density))
            title_sub_score ==
                IF ta.status # "error" /\ ta.title_length_status = "good"
                THEN 10000 ELSE 0
            description_sub_score ==
                IF da.status # "error" /\ da.description_length_status = "good"
                THEN 10000 ELSE 0
            seo_composite ==
                (60 * content_sub_score + 25 * title_sub_score
                 + 15 * description_sub_score) \div 100
        IN  strategy =
                IF Get(quality_result, "quality_score", 0) < 5000
                THEN "focus_on_quality"
                ELSE IF seo_composite < 5000 THEN "focus_on_seo"
                ELSE "balanced_optimization"

\* C6: when the optimize call answers with nothing or fails, the session
\* does not raise: the previous draft is this iteration's draft, unchanged,
\* it is evaluated again and the session returns its result.
FallbackKeepsPreviousDraft ==
    optimize_outcome \in {"empty", "failed"} =>
        /\ pc = "done"
        /\ result # None
        /\ Len(evaluated) = 2
        /\ evaluated[2] = rewritten_content

\* C7: a regenerated text that starts with a meta-commentary preamble does
\* not end the session: the session goes on to the evaluation and returns
\* a result, and no error is raised.
PreambleIsNotFatal ==
    (optimize_outcome = "text" /\ HasPreamble(regenerated)) =>
        /\ error = "none"
        /\ pc = "done"
        /\ result # None

\* C8: when the draft sent for optimization holds k >= 1 image markers and
\* the regenerated draft holds fewer, the draft that is evaluated again
\* holds exactly k markers, whatever the number of image assets.
MarkersOfDraftPreserved ==
    (/\ optimize_outcome = "text"
     /\ Len(evaluated) = 2
     /\ CountMarkers(rewritten_content) >= 1
     /\ CountMarkers(regenerated) < CountMarkers(rewritten_content))
        => CountMarkers(evaluated[2]) = CountMarkers(rewritten_content)

\* C10: the SEO composite of the returned result is
\* 0.6 * content sub-score + 0.25 * title sub-score + 0.15 * description
\* sub-score, each sub-score the fraction of the passed checks of its
\* report: 100 for reports that pass every check, 0 for reports that pass
\* none.
SeoCompositeIsWeightedFraction ==
    (pc = "done" /\ result # None) =>
        LET ca == result.seo_analysis.content_analysis
            ta == result.seo_analysis.title_analysis
            da == result.seo_analysis.description_analysis
            passed ==
                (IF ca.word_count_status = "good" THEN 1 ELSE 0)
                + Cardinality({c \in {"internal_links", "images", "h2_tags",
                                      "h3_tags"} : ca[c].status = "good"})
                + Cardinality({kw \in DOMAIN ca.keyword_density :
                                  ca.keyword_density[kw].status = "good"})
            content_sub_score ==
                IF ca.status = "error" THEN 0
                ELSE (10000 * passed)
                     \div (5 + Cardinality(DOMAIN ca.keyword_density))
            title_sub_score ==
                IF ta.status # "error" /\ ta.title_length_status = "good"
                THEN 10000 ELSE 0
            description_sub_score ==
                IF da.status # "error" /\ da.description_length_status = "good"
                THEN 10000 ELSE 0
            seo_composite ==
                (60 * content_sub_score + 25 * title_sub_score
                 + 15 * description_sub_score) \div 100
        IN  result.seo_score = seo_composite

(***************************************************************************)
(* Properties of a call of the Text Generation Service.                    *)
(***************************************************************************)

WordCountStatusFollowsWords ==
    LET sc == config.seo
        words == TextWords(rewritten_content)
        content == seo_analysis.suggestions.content
    IN  pc = "analyzed_seo" =>
            /\ seo_analysis.content_analysis.word_count_status = "good"
                   <=> words >= sc.min_word_count
            /\ words < sc.min_word_count =>
                   \E i \in DOMAIN content : content[i] = "s_too_few_words"

\* C23: the status of a keyword is 'good' exactly when the number of its
\* occurrences divided by the number of words of the text lies within
\* [0.5 * target, 1.5 * target], and when every keyword is 'good' there is
\* no density suggestion.
KeywordDensityPerWord ==
    LET sc == config.seo
        words == TextWords(rewritten_content)
        report == seo_analysis.content_analysis.keyword_density
        content == seo_analysis.suggestions.content
    IN  pc = "analyzed_seo" =>
            /\ \A kw \in DOMAIN report :
                  report[kw].status = "good"
                      <=> /\ sc.keyword_density * words <= 20000 * report[kw].count
                          /\ 20000 * report[kw].count <= 3 * sc.keyword_density * words
            /\ (\A kw \in DOMAIN report : report[kw].status = "good") =>
                   \A i \in DOMAIN content :
                       content[i] \notin {"s_density_low", "s_density_high"}

(***************************************************************************)
(* Properties of publish_post.                                             *)
(***************************************************************************)

\* C24: publish_post sends at most max_retries requests and no request
\* after one that succeeded; it returns the result of the request that
\* succeeded, after exactly one request when the first one succeeds, and
\* None when every one of its max_retries requests failed; it raises
\* nothing.
PublishStopsAtFirstSuccess ==
    LET requests == SelectSeq(evaluated, LAMBDA ev : ev.e = "request")
        n == Len(requests)
    IN  /\ pc \in {"post", "post_sleeping", "post_returned"}
        /\ n <= config.max_retries
        /\ \A i \in 1 .. n - 1 : requests[i].answer = "failed"
        /\ pc = "post_returned" =>
              IF n > 0 /\ requests[n].answer # "failed"
              THEN /\ result = [link |-> requests[n].answer]
                   /\ requests[1].answer # "failed" => Len(evaluated) = 1
              ELSE /\ result = None
                   /\ config.api_url => n = config.max_retries

\* publish_post has returned the post of its third request after two
\* requests that failed
PublishedAtThirdRequest ==
    /\ pc = "post_returned"
    /\ config.max_retries = 3
    /\ Len(evaluated) = 5
    /\ evaluated[1].answer = "failed"
    /\ evaluated[3].answer = "failed"
    /\ result = [link |-> "post1"]

(***************************************************************************)
(* Further properties of redistribute_images and of                        *)
(* check_image_distribution.                                               *)
(***************************************************************************)

\* C25: every marker redistribute_images inserts follows an eligible block:
\* a block that is no heading, no code block and longer than 20 characters.
RedistributeMarksEligibleBlocksOnly ==
    (pc = "redistributed" /\ RemoveMarkers(rewritten_content) # <<>>) =>
        \A i \in DOMAIN regenerated :
            regenerated[i].k = "marker" =>
                i > 1 /\ Suitable(regenerated[i - 1])


\* C26 as stated: when the output of redistribute_images(text, n) passes
\* check_image_distribution for n, a second call with the same n returns
\* the identical text.
RedistributeAgainIsNoOp ==
    (pc = "redistributed_again"
     /\ check_image_distribution(regenerated, Len(images))) =>
        result.content = regenerated

\* C26: when the output of redistribute_images(text, n) passes
\* check_image_distribution for n, a second call with the same n returns
\* that output with every block stripped of the blanks around it; the text
\* is identical when no list item of the output ends with a blank.
RedistributeAgainStripsBlocks ==
    (pc = "redistributed_again"
     /\ check_image_distribution(regenerated, Len(images))) =>
        /\ Len(result.content) = Len(regenerated)
        /\ \A i \in DOMAIN regenerated :
               result.content[i] =
                   IF regenerated[i].k = "item_ws" THEN B("item")
                   ELSE regenerated[i]
        /\ (\A i \in DOMAIN regenerated : regenerated[i].k # "item_ws") =>
               result.content = regenerated

\* an evenly marked output whose list item ends with a blank has been
\* redistributed again and came back without the blank
RedistributedAgainWithoutBlank ==
    /\ pc = "redistributed_again"
    /\ Len(images) >= 1
    /\ check_image_distribution(regenerated, Len(images))
    /\ CountMarkers(regenerated) = Len(images)
    /\ \E i \in DOMAIN regenerated : regenerated[i].k = "item_ws"
    /\ result.content # regenerated


\* C27 as stated: check_image_distribution(text, n) reports the
\* distribution as uneven exactly when the largest gap between consecutive
\* marker positions exceeds 2 * total_blocks / (n + 1), n being the number
\* of images the caller passed.
UnevenAgainstRequestedCount ==
    pc = "checked_distribution" =>
        LET blocks == _split_markdown_blocks(rewritten_content)
            pos == {i \in DOMAIN blocks : blocks[i].k = "marker"}
            gaps == {g \in 1 .. Len(blocks) :
                        \E i \in pos : i + g \in pos /\
                            \A x \in i + 1 .. i + g - 1 : x \notin pos}
        IN  ~result.good <=>
                \E g \in gaps : g * (Len(images) + 1) > 2 * Len(blocks)

\* C27: check_image_distribution(text, n) reports the distribution as
\* uneven exactly when the largest gap between consecutive marker positions
\* exceeds 2 * total_blocks / (m + 1), m being the number of marker blocks
\* of the text; the n the caller passed has no part in it, and the report
\* is the stated one when m = n.
UnevenAgainstMarkerCount ==
    pc = "checked_distribution" =>
        LET blocks == _split_markdown_blocks(rewritten_content)
            pos == {i \in DOMAIN blocks : blocks[i].k = "marker"}
            m == Cardinality(pos)
            gaps == {g \in 1 .. Len(blocks) :
                        \E i \in pos : i + g \in pos /\
                            \A x \in i + 1 .. i + g - 1 : x \notin pos}
        IN  /\ ~result.good <=>
                   \E g \in gaps : g * (m + 1) > 2 * Len(blocks)
            /\ m = Len(images) =>
                   (~result.good <=>
                       \E g \in gaps :
                           g * (Len(images) + 1) > 2 * Len(blocks))

\* a text whose two markers are three blocks apart among four has been
\* checked for one image and reported uneven
CheckedUnevenForOtherCount ==
    /\ pc = "checked_distribution"
    /\ rewritten_content = T(<<"marker", "para", "para", "marker">>)
    /\ Len(images) = 1
    /\ ~result.good


ExtractReturnsEveryDownloadOnce ==
    /\ pc # "crashed"
    /\ Running(quality_result) <= config.max_concurrent_downloads
    /\ pc = "returned" =>
           /\ \A i \in DOMAIN quality_result : quality_result[i] = "finished"
           /\ \A i \in DOMAIN rewritten_content :
                  Cardinality({j \in DOMAIN result.images :
                                  result.images[j] = i})
                      = IF rewritten_content[i] = "ok" THEN 1 ELSE 0

=============================================================================
